---- MODULE Spec2Model ----
(***************************************************************************)
(* Model of the Volvo XC70 USB media-drive verifier                        *)
(* (src/volvo_usb_verifier.py): one scan of a directory tree by            *)
(* VolvoUSBVerifier.verify_all, with the thread pool of                    *)
(* verify_audio_files and the aggregation loop over as_completed.          *)
(* The module also holds the fixers that consume the verifier's export     *)
(* (src/volvo_path_fixer.py, src/volvo_usb_fixer.py) and apply_changes of  *)
(* src/rename_audiobooks.py, each over a small drive of files and folders. *)
(*                                                                         *)
(* Abstractions.  A path string is represented by the index of the file    *)
(* (or folder) in walk order together with the lengths the code measures;  *)
(* a formatted message is a record of its template text, its subject and   *)
(* the number formatted into it.  The os.walk order of an unmodified tree  *)
(* is the order of the sequences tree.parent and tree.files.               *)
(***************************************************************************)
EXTENDS Integers, Sequences, FiniteSets, TLC

\* ------------------------------------------------------------ bounds
MaxFiles == 2      \* audited files in a tree of the mixed family
MaxThreads == 2    \* largest num_threads given to the constructor
MaxRuns == 2       \* scans of the same tree, each by a fresh verifier
MaxDirs == 2       \* folders (root included) in a tree of the single-file family
MaxCrowded == 6    \* over-full folders in a tree of the bulk family
MaxLong == 6       \* files with an over-long path in a tree of the bulk family
MaxJobs == 2       \* files named in the CSV given to a fixer

\* ------------------------------------------------------------ RuleSet
MAX_TOTAL_FILES == 15000
MAX_ROOT_FOLDERS == 1000
MAX_FILES_PER_FOLDER == 254
MAX_NESTING_DEPTH == 8
MAX_PATH_LENGTH == 60
MAX_FILENAME_LENGTH == 64
FORBIDDEN_BITRATE == 144
MIN_BITRATE == 32
MAX_BITRATE == 320
SUPPORTED_FORMATS == {".mp3", ".wma", ".aac", ".m4a", ".m4b"}
UNSUPPORTED_FORMATS == {".flac", ".ogg", ".wav", ".ape", ".alac"}
VALID_SAMPLE_RATES == {32000, 44100, 48000}
\* img_size > 500 * 500 * 3 in _verify_id3_tags
ArtThreshold == 500 * 500 * 3
\* overcrowded_folders[:5] and long_paths[:5] in verify_structure
StructureCap == 5
\* problem_files[:20] in verify_audio_files
IssueCap == 20

\* ------------------------------------------------------------ helpers
Idx(n) == [i \in 1..n |-> i]

RECURSIVE Flatten(_)
Flatten(ss) == IF ss = <<>> THEN <<>> ELSE Head(ss) \o Flatten(Tail(ss))

RECURSIVE SumSeq(_)
SumSeq(s) == IF s = <<>> THEN 0 ELSE Head(s) + SumSeq(Tail(s))

RECURSIVE MaxSeq(_)
MaxSeq(s) ==
  IF s = <<>> THEN 0
  ELSE LET m == MaxSeq(Tail(s)) IN IF Head(s) > m THEN Head(s) ELSE m

Range(s) == {s[i] : i \in DOMAIN s}

Prefix(s, n) == SubSeq(s, 1, IF Len(s) < n THEN Len(s) ELSE n)

\* str.lower() on a file suffix, for the suffixes that occur in the trees
Lower(ext) ==
  CASE ext = ".MP3" -> ".mp3"
    [] ext = ".FLAC" -> ".flac"
    [] OTHER -> ext

\* a formatted message: template text, subject (file or folder index, 0 for
\* none) and the number formatted into it (0 for none)
Msg(text, subj, n) == [text |-> text, subj |-> subj, n |-> n]

\* one entry of self.problem_files / one row of the CSV export
Row(path, type, sev, desc, n) ==
  [file_path |-> path, issue_type |-> type, severity |-> sev,
   description |-> [text |-> desc, n |-> n]]

\* ------------------------------------------------------------ trees
\* One file of the tree.  dir: index of its folder; pathLen, nameLen:
\* len(str(relative_path)) and len(file); unsafe: the relative path contains
\* a character of UNSAFE_CHARS; fault: where reading it raises ("none",
\* "probe": the mutagen constructor raises inside the handler, "task": an
\* exception leaves _verify_audio_file); bitrate in bit/s, sample_rate in Hz;
\* tagver <<0,0>> stands for no tags; art: byte sizes of the APIC frames.
CleanMp3 ==
  [dir |-> 1, ext |-> ".mp3", pathLen |-> 20, nameLen |-> 20, unsafe |-> FALSE,
   fault |-> "none", bitrate |-> 192000, sample_rate |-> 44100, vbr |-> FALSE,
   tagver |-> <<2, 3>>, art |-> <<>>]

BigArt == [i \in 1..(IssueCap + 1) |-> ArtThreshold + 1]

ForbiddenMp3 == [CleanMp3 EXCEPT !.bitrate = 144999]
WarnMp3 == [CleanMp3 EXCEPT !.sample_rate = 22050, !.tagver = <<2, 4>>]
ArtMp3 == [CleanMp3 EXCEPT !.art = BigArt]
BadWma == [CleanMp3 EXCEPT !.ext = ".wma", !.fault = "probe"]
CrashM4a == [CleanMp3 EXCEPT !.ext = ".m4a", !.fault = "task"]

\* the profiles of the mixed family
ProfilesA == {CleanMp3, ForbiddenMp3, WarnMp3, BadWma, CrashM4a}

\* the profiles of the single-file family
ProfilesB ==
  ProfilesA \cup
  { ArtMp3,
    [CleanMp3 EXCEPT !.fault = "probe"],
    [CleanMp3 EXCEPT !.ext = ".m4a", !.fault = "probe"],
    [CleanMp3 EXCEPT !.ext = ".wma", !.bitrate = 144000],
    [CleanMp3 EXCEPT !.ext = ".m4a", !.bitrate = 144000, !.sample_rate = 7000],
    [CleanMp3 EXCEPT !.ext = ".MP3", !.bitrate = 321000, !.vbr = TRUE,
                     !.tagver = <<0, 0>>],
    [CleanMp3 EXCEPT !.bitrate = 0, !.tagver = <<2, 2>>,
                     !.art = <<ArtThreshold>>],
    [CleanMp3 EXCEPT !.ext = ".flac"],
    [CleanMp3 EXCEPT !.ext = ".FLAC", !.unsafe = TRUE],
    [CleanMp3 EXCEPT !.ext = ".txt", !.pathLen = 61],
    [CleanMp3 EXCEPT !.pathLen = 65, !.nameLen = 65, !.unsafe = TRUE],
    [CleanMp3 EXCEPT !.pathLen = 60, !.nameLen = 60] }

LongTxt == [CleanMp3 EXCEPT !.ext = ".txt", !.pathLen = 61, !.nameLen = 61]

\* a file that is not audio, with the given measured lengths
EdgeTxt(p, n) == [CleanMp3 EXCEPT !.ext = ".txt", !.pathLen = p, !.nameLen = n]

\* the profiles of the boundary family: path and filename lengths at the
\* limits and one above them
ProfilesEdge ==
  { EdgeTxt(MAX_PATH_LENGTH, MAX_PATH_LENGTH),
    EdgeTxt(MAX_PATH_LENGTH + 1, MAX_PATH_LENGTH + 1),
    EdgeTxt(MAX_FILENAME_LENGTH, MAX_FILENAME_LENGTH),
    EdgeTxt(MAX_FILENAME_LENGTH + 1, MAX_FILENAME_LENGTH + 1) }

\* the bitrates (bit/s) of the bitrate family: around the range limits and
\* the forbidden value
EdgeBitrates ==
  { MIN_BITRATE * 1000 - 1, MIN_BITRATE * 1000, FORBIDDEN_BITRATE * 1000 + 999,
    MAX_BITRATE * 1000, (MAX_BITRATE + 1) * 1000 }

ProfilesRate ==
  { [CleanMp3 EXCEPT !.ext = e, !.bitrate = b] :
      e \in {".mp3", ".wma", ".m4a", ".m4b", ".aac"}, b \in EdgeBitrates }

\* the sample rates (Hz) of the sample-rate family: the valid set, the
\* limits of the range _verify_aac_m4a accepts and one below and above them
EdgeSampleRates == VALID_SAMPLE_RATES \cup {7999, 8000, 22050, 96000, 96001}

\* the profiles of the sample-rate family, and a DRM-tagged MP4 file
ProfilesSample ==
  { [CleanMp3 EXCEPT !.ext = e, !.sample_rate = r] :
      e \in {".mp3", ".wma", ".m4a", ".m4b", ".aac"}, r \in EdgeSampleRates }
  \cup { [CleanMp3 EXCEPT !.ext = ".m4p"] }

\* ancestors of folder j (itself included) under the parent sequence p
RECURSIVE Anc(_, _)
Anc(p, j) == IF j = 0 THEN {} ELSE {j} \cup Anc(p, p[j])

\* parent sequences of the folders in the top-down order of os.walk:
\* folder 1 is the scan root, every other folder follows its parent and
\* hangs below the branch of the folder walked just before it
Shapes ==
  { p \in UNION {[1..k -> 0..(k - 1)] : k \in 1..MaxDirs} :
      /\ p[1] = 0
      /\ \A i \in 2..Len(p) : p[i] \in Anc(p, i - 1) }

FsKinds == {"fat32", "ntfs", "unknown"}

\* A tree: parent (the folders), nClean (per folder, the number of further
\* supported audio files whose audit finds nothing), files (in walk order),
\* isFsRoot (Path(drive_path).parent == Path(drive_path)), fs (what the
\* platform's filesystem probe reports).
TreesMixed ==
  { [parent |-> <<0>>, nClean |-> <<0>>, files |-> fs, isFsRoot |-> FALSE,
     fs |-> "fat32"] :
      fs \in UNION {[1..k -> ProfilesA] : k \in 0..MaxFiles} }

TreesSingle ==
  { [parent |-> p, nClean |-> [i \in 1..Len(p) |-> 0],
     files |-> <<[f EXCEPT !.dir = Len(p)]>>, isFsRoot |-> r, fs |-> k] :
      p \in Shapes, f \in ProfilesB, r \in BOOLEAN, k \in FsKinds }

TreesBulk ==
  { [parent |-> <<0>> \o [i \in 1..c |-> 1],
     nClean |-> <<0>> \o [i \in 1..c |-> MAX_FILES_PER_FOLDER + 1],
     files |-> [i \in 1..l |-> LongTxt], isFsRoot |-> TRUE, fs |-> "fat32"] :
      c \in 0..MaxCrowded, l \in 0..MaxLong }

\* trees of files that are not audio, with lengths around the limits
TreesEdge ==
  { [parent |-> <<0>>, nClean |-> <<0>>, files |-> fs, isFsRoot |-> FALSE,
     fs |-> "fat32"] :
      fs \in UNION {[1..k -> ProfilesEdge] : k \in 1..MaxFiles} }

\* trees of folders holding only clean audio files, around the per-folder limit
TreesFolders ==
  { [parent |-> p, nClean |-> c, files |-> <<>>, isFsRoot |-> r, fs |-> "fat32"] :
      <<p, c>> \in { pc \in Shapes \X UNION {[1..k -> {0, MAX_FILES_PER_FOLDER,
                                                         MAX_FILES_PER_FOLDER + 1}] :
                                               k \in 1..MaxDirs} :
                       Len(pc[1]) = Len(pc[2]) },
      r \in BOOLEAN }

\* trees of one audio file with a bitrate around the limits
TreesRate ==
  { [parent |-> <<0>>, nClean |-> <<0>>, files |-> <<f>>, isFsRoot |-> FALSE,
     fs |-> "fat32"] : f \in ProfilesRate }

\* trees of one file with a sample rate around the limits
TreesSample ==
  { [parent |-> <<0>>, nClean |-> <<0>>, files |-> <<f>>, isFsRoot |-> FALSE,
     fs |-> "fat32"] : f \in ProfilesSample }

Trees ==
  TreesMixed \cup TreesSingle \cup TreesBulk \cup TreesEdge \cup TreesFolders
  \cup TreesRate \cup TreesSample

\* ------------------------------------------------------------ verify_filesystem
\* What the platform probe appends: (errors, warnings, info)
FilesystemFindings(t) ==
  CASE t.fs = "fat32" ->
         [errors |-> <<>>, warnings |-> <<>>,
          info |-> <<Msg("Filesystem is FAT32", 0, 0)>>]
    [] t.fs = "ntfs" ->
         [errors |-> <<Msg("Filesystem must be FAT32", 0, 0)>>,
          warnings |-> <<>>, info |-> <<>>]
    [] OTHER ->
         [errors |-> <<>>,
          warnings |-> <<Msg("Could not verify filesystem details", 0, 0)>>,
          info |-> <<>>]

\* ------------------------------------------------------------ verify_structure
NumDirs(t) == Len(t.parent)
NumFiles(t) == Len(t.files)

\* len(dirs) of folder d
SubdirCount(t, d) == Cardinality({j \in 1..NumDirs(t) : t.parent[j] = d})

\* root_path.parent == self.drive_path
ParentIsDrive(t, d) == IF d = 1 THEN t.isFsRoot ELSE t.parent[d] = 1

\* len(relative.parts)
Depth(t, d) == Cardinality(Anc(t.parent, d)) - 1

\* the test of the unsupported set without lower()
IsUnsupported_cs(f) == f.ext \in UNSUPPORTED_FORMATS

\* Path(f).suffix.lower() in self.SUPPORTED_FORMATS
IsSupported(f) == Lower(f.ext) \in SUPPORTED_FORMATS
IsUnsupported(f) == Lower(f.ext) \in UNSUPPORTED_FORMATS

\* folders_with_files[root] = len(audio_files)
FolderAudioCount(t, d) ==
  t.nClean[d] +
  Cardinality({i \in 1..NumFiles(t) : t.files[i].dir = d /\ IsSupported(t.files[i])})

total_files(t) == SumSeq([d \in 1..NumDirs(t) |-> FolderAudioCount(t, d)])

root_folders(t) ==
  SumSeq([d \in 1..NumDirs(t) |->
            IF ParentIsDrive(t, d) THEN SubdirCount(t, d) ELSE 0])

max_nesting(t) == MaxSeq([d \in 1..NumDirs(t) |-> Depth(t, d)])

\* the path check written with >= in place of >
long_paths_ge(t) ==
  LET Long(i) == t.files[i].pathLen >= MAX_PATH_LENGTH
  IN  SelectSeq(Idx(NumFiles(t)), Long)

long_paths(t) ==
  LET Long(i) == t.files[i].pathLen > MAX_PATH_LENGTH
  IN  SelectSeq(Idx(NumFiles(t)), Long)

\* the per-folder check written with >= in place of >
overcrowded_folders_ge(t) ==
  LET Over(d) == FolderAudioCount(t, d) >= MAX_FILES_PER_FOLDER
  IN  SelectSeq(Idx(NumDirs(t)), Over)

overcrowded_folders(t) ==
  LET Over(d) == FolderAudioCount(t, d) > MAX_FILES_PER_FOLDER
  IN  SelectSeq(Idx(NumDirs(t)), Over)

\* the rows of file i with the filename check written with >= in place of >
StructureFileRows_ge(t, i) ==
  LET f == t.files[i] IN
  (IF f.pathLen > MAX_PATH_LENGTH
     THEN <<Row(i, "Path Length", "ERROR", "Path length exceeds maximum", f.pathLen)>>
     ELSE <<>>)
  \o
  (IF f.nameLen >= MAX_FILENAME_LENGTH
     THEN <<Row(i, "Filename Length", "ERROR", "Filename length exceeds maximum", f.nameLen)>>
     ELSE <<>>)
  \o
  (IF f.unsafe
     THEN <<Row(i, "Invalid Characters", "WARNING", "Path contains extended ASCII characters", 0)>>
     ELSE <<>>)

\* the rows the walk appends to self.problem_files for file i
StructureFileRows(t, i) ==
  LET f == t.files[i] IN
  (IF f.pathLen > MAX_PATH_LENGTH
     THEN <<Row(i, "Path Length", "ERROR", "Path length exceeds maximum", f.pathLen)>>
     ELSE <<>>)
  \o
  (IF f.nameLen > MAX_FILENAME_LENGTH
     THEN <<Row(i, "Filename Length", "ERROR", "Filename length exceeds maximum", f.nameLen)>>
     ELSE <<>>)
  \o
  (IF f.unsafe
     THEN <<Row(i, "Invalid Characters", "WARNING", "Path contains extended ASCII characters", 0)>>
     ELSE <<>>)

StructureRows(t) == Flatten([i \in 1..NumFiles(t) |-> StructureFileRows(t, i)])

\* the entries "Report findings" appends to self.errors, in the code's order
StructureErrors(t) ==
  (IF total_files(t) <= MAX_TOTAL_FILES THEN <<>>
     ELSE <<Msg("Total files exceeds maximum", 0, total_files(t))>>)
  \o
  (IF root_folders(t) <= MAX_ROOT_FOLDERS THEN <<>>
     ELSE <<Msg("Root folders exceeds maximum", 0, root_folders(t))>>)
  \o
  (LET shown == Prefix(overcrowded_folders(t), StructureCap)
   IN  [k \in 1..Len(shown) |->
          Msg("Folder has too many files", shown[k], FolderAudioCount(t, shown[k]))])
  \o
  (IF max_nesting(t) <= MAX_NESTING_DEPTH THEN <<>>
     ELSE <<Msg("Max nesting depth exceeds maximum", 0, max_nesting(t))>>)
  \o
  (LET lp == long_paths(t)
       shown == Prefix(lp, StructureCap)
   IN  [k \in 1..Len(shown) |->
          Msg("Path too long", shown[k], t.files[shown[k]].pathLen)]
       \o
       (IF Len(lp) > StructureCap
          THEN <<Msg("... and N more long paths", 0, Len(lp) - StructureCap)>>
          ELSE <<>>))

\* the entries "Report findings" appends to self.info
StructureInfo(t) ==
  (IF total_files(t) <= MAX_TOTAL_FILES
     THEN <<Msg("Total files", 0, total_files(t))>> ELSE <<>>)
  \o
  (IF root_folders(t) <= MAX_ROOT_FOLDERS
     THEN <<Msg("Root folders", 0, root_folders(t))>> ELSE <<>>)
  \o
  (IF overcrowded_folders(t) = <<>>
     THEN <<Msg("Files per folder: max", 0,
                MaxSeq([d \in 1..NumDirs(t) |-> FolderAudioCount(t, d)]))>>
     ELSE <<>>)
  \o
  (IF max_nesting(t) <= MAX_NESTING_DEPTH
     THEN <<Msg("Max nesting depth", 0, max_nesting(t))>> ELSE <<>>)
  \o
  (IF long_paths(t) = <<>>
     THEN <<Msg("All paths under limit", 0, MAX_PATH_LENGTH)>> ELSE <<>>)

\* ------------------------------------------------------------ first pass of verify_audio_files
\* audio_files: the supported files in walk order (the nClean files of a
\* folder are audited too; their audit returns None and the aggregation
\* loop does nothing for them, so they are left out of the pool)
CollectedAudioFiles(t) ==
  LET Sup(i) == IsSupported(t.files[i]) IN SelectSeq(Idx(NumFiles(t)), Sup)

\* the "Unsupported format" entries appended to self.errors
UnsupportedErrors(t) ==
  LET Uns(i) == IsUnsupported(t.files[i])
      un == SelectSeq(Idx(NumFiles(t)), Uns)
  IN  [k \in 1..Len(un) |-> Msg("Unsupported format", un[k], 0)]

\* self.file_stats[ext] += 1
CollectedStats(t) ==
  [e \in SUPPORTED_FORMATS |->
     Cardinality({i \in 1..NumFiles(t) : Lower(t.files[i].ext) = e})
     + (IF e = ".mp3" THEN SumSeq(t.nClean) ELSE 0)]

\* ------------------------------------------------------------ per-file audit
\* one detected issue: the display string and the CSV row appended together
Issue(id, text, type, sev, desc, n) ==
  [display |-> Msg(text, id, n), csv |-> Row(id, type, sev, desc, n)]

\* what a handler returns: (display_issues, csv_issues), whether it raised
\* instead, and how often it called the mutagen constructor
Handled(issues) ==
  [raised |-> FALSE,
   display |-> [k \in 1..Len(issues) |-> issues[k].display],
   csv |-> [k \in 1..Len(issues) |-> issues[k].csv],
   probes |-> 1]

\* audio.info.bitrate // 1000
BitrateKbps(f) == f.bitrate \div 1000

\* the "except Exception as e" branch of a handler
ReadErrorIssue(id, text) == Issue(id, text, "Read Error", "Error", "str(e)", 0)

\* _verify_id3_tags without the branch for version (2, 4)
_verify_id3_tags_accept24(f, id) ==
  (CASE f.tagver[1] = 2 /\ f.tagver[2] \in {3, 4} -> <<>>
     [] f.tagver[1] = 1 -> <<>>
     [] OTHER ->
          <<Issue(id, "Unusual ID3 version", "ID3 Tags", "Warning",
                  "Unusual ID3 version", f.tagver[1] * 10 + f.tagver[2])>>)
  \o
  (LET Large(k) == f.art[k] > ArtThreshold
       big == SelectSeq(Idx(Len(f.art)), Large)
   IN  [k \in 1..Len(big) |->
          Issue(id, "Large embedded artwork", "Album Art", "Warning",
                "Large artwork", f.art[big[k]] \div 1024)])

_verify_id3_tags(f, id) ==
  (CASE f.tagver[1] = 2 /\ f.tagver[2] = 3 -> <<>>
     [] f.tagver[1] = 2 /\ f.tagver[2] = 4 ->
          <<Issue(id, "ID3v2.4 tags (ID3v2.3 recommended for compatibility)",
                  "ID3 Tags", "Warning", "ID3v2.4 (ID3v2.3 recommended)", 0)>>
     [] f.tagver[1] = 1 -> <<>>
     [] OTHER ->
          <<Issue(id, "Unusual ID3 version", "ID3 Tags", "Warning",
                  "Unusual ID3 version", f.tagver[1] * 10 + f.tagver[2])>>)
  \o
  (LET Large(k) == f.art[k] > ArtThreshold
       big == SelectSeq(Idx(Len(f.art)), Large)
   IN  [k \in 1..Len(big) |->
          Issue(id, "Large embedded artwork", "Album Art", "Warning",
                "Large artwork", f.art[big[k]] \div 1024)])

_verify_mp3(f, id) ==
  IF f.fault = "probe"
    THEN Handled(<<ReadErrorIssue(id, "Error reading MP3")>>)
    ELSE Handled(
      (IF f.bitrate # 0
         THEN (CASE BitrateKbps(f) = FORBIDDEN_BITRATE ->
                      <<Issue(id, "144 kbps is explicitly not supported",
                              "Bitrate", "Error", "144 kbps is forbidden", 0)>>
                 [] BitrateKbps(f) # FORBIDDEN_BITRATE
                    /\ (BitrateKbps(f) < MIN_BITRATE \/ BitrateKbps(f) > MAX_BITRATE) ->
                      <<Issue(id, "bitrate outside supported range",
                              "Bitrate", "Warning", "kbps (range)", BitrateKbps(f))>>
                 [] OTHER -> <<>>)
         ELSE <<>>)
      \o
      (IF f.sample_rate \notin VALID_SAMPLE_RATES
         THEN <<Issue(id, "sample rate (recommended: 44100 Hz)", "Sample Rate",
                      "Warning", "Hz (recommended: 32000, 44100, or 48000 Hz)",
                      f.sample_rate)>>
         ELSE <<>>)
      \o
      (IF f.vbr
         THEN <<Issue(id, "VBR encoding (CBR strongly recommended)", "Encoding",
                      "Warning", "VBR encoding (CBR strongly recommended)", 0)>>
         ELSE <<>>)
      \o
      (IF f.tagver # <<0, 0>>
         THEN _verify_id3_tags(f, id)
         ELSE <<Issue(id, "No ID3 tags found", "ID3 Tags", "Warning",
                      "No ID3 tags found", 0)>>))

\* _verify_wma with "except Exception: pass": the failed read leaves no Finding
_verify_wma_swallow(f, id) ==
  IF f.fault = "probe"
    THEN Handled(<<>>)
    ELSE Handled(
      IF f.bitrate # 0
         /\ (BitrateKbps(f) < MIN_BITRATE \/ BitrateKbps(f) > MAX_BITRATE)
        THEN <<Issue(id, "bitrate outside typical range", "Bitrate", "Warning",
                     "kbps (range)", BitrateKbps(f))>>
        ELSE <<>>)

\* _verify_wma with the range check written with <= and >=
_verify_wma_exclusive(f, id) ==
  IF f.fault = "probe"
    THEN Handled(<<ReadErrorIssue(id, "Error reading WMA")>>)
    ELSE Handled(
      IF f.bitrate # 0
         /\ (BitrateKbps(f) <= MIN_BITRATE \/ BitrateKbps(f) >= MAX_BITRATE)
        THEN <<Issue(id, "bitrate outside typical range", "Bitrate", "Warning",
                     "kbps (range)", BitrateKbps(f))>>
        ELSE <<>>)

_verify_wma(f, id) ==
  IF f.fault = "probe"
    THEN Handled(<<ReadErrorIssue(id, "Error reading WMA")>>)
    ELSE Handled(
      IF f.bitrate # 0
         /\ (BitrateKbps(f) < MIN_BITRATE \/ BitrateKbps(f) > MAX_BITRATE)
        THEN <<Issue(id, "bitrate outside typical range", "Bitrate", "Warning",
                     "kbps (range)", BitrateKbps(f))>>
        ELSE <<>>)

\* _verify_aac_m4a testing the sample rate against VALID_SAMPLE_RATES
_verify_aac_m4a_valid_set(f, id) ==
  IF f.fault = "probe"
    THEN Handled(<<ReadErrorIssue(id, "Error reading AAC/M4A")>>)
    ELSE Handled(
      (IF Lower(f.ext) = ".m4p"
         THEN <<Issue(id, ".m4p file likely has DRM (iTunes protected)", "DRM",
                      "Error", "iTunes DRM protected (m4p)", 0)>>
         ELSE <<>>)
      \o
      (IF f.sample_rate \notin VALID_SAMPLE_RATES
         THEN <<Issue(id, "sample rate outside supported range (8-96 kHz)",
                      "Sample Rate", "Warning", "Hz (range: 8-96 kHz)",
                      f.sample_rate)>>
         ELSE <<>>))

_verify_aac_m4a(f, id) ==
  IF f.fault = "probe"
    THEN Handled(<<ReadErrorIssue(id, "Error reading AAC/M4A")>>)
    ELSE Handled(
      (IF Lower(f.ext) = ".m4p"
         THEN <<Issue(id, ".m4p file likely has DRM (iTunes protected)", "DRM",
                      "Error", "iTunes DRM protected (m4p)", 0)>>
         ELSE <<>>)
      \o
      (IF f.sample_rate < 8000 \/ f.sample_rate > 96000
         THEN <<Issue(id, "sample rate outside supported range (8-96 kHz)",
                      "Sample Rate", "Warning", "Hz (range: 8-96 kHz)",
                      f.sample_rate)>>
         ELSE <<>>))

\* The outcome of the future of one task: raised (future.result() raises),
\* or the returned dict; None is the value with an empty display list.
_verify_audio_file(f, id) ==
  LET ext == Lower(f.ext)
      h == CASE ext = ".mp3" -> _verify_mp3(f, id)
             [] ext = ".wma" -> _verify_wma(f, id)
             [] ext \in {".m4a", ".m4b", ".aac"} -> _verify_aac_m4a(f, id)
             [] OTHER -> [Handled(<<>>) EXCEPT !.probes = 0]
      caught == Handled(<<ReadErrorIssue(id, "Error reading")>>)
  IN  IF f.fault = "task"
        THEN [raised |-> TRUE, display |-> <<>>, csv |-> <<>>, probes |-> h.probes]
        ELSE IF h.raised
               THEN [caught EXCEPT !.probes = h.probes]
               ELSE h

\* ------------------------------------------------------------ path fixer: strings
\* A string is the sequence of its characters; a relative path is a string
\* with "/" between its components.
Rep(c, n) == [i \in 1..n |-> c]

Digits == {"0", "1", "2", "3", "4", "5", "6", "7", "8", "9"}

\* the characters matched by [\s\-\.] in _shorten_filename
TrackSeparators == {" ", "\t", "-", "."}

\* the slice s[lo:hi] of Python, negative indices counted from the end
PySlice(s, lo, hi) ==
  LET n == Len(s)
      Norm(i) == IF i < 0 THEN (IF i + n < 0 THEN 0 ELSE i + n)
                 ELSE (IF i > n THEN n ELSE i)
  IN  SubSeq(s, Norm(lo) + 1, Norm(hi))

\* the positions from i on at which old occurs in s
MatchesFrom(s, i, old) ==
  {j \in i..(Len(s) - Len(old) + 1) : SubSeq(s, j, j + Len(old) - 1) = old}

\* s[i-1:].replace(old, new) for a non-empty old: the occurrences are
\* replaced from the left, without overlap
RECURSIVE StrReplaceFrom(_, _, _, _)
StrReplaceFrom(s, i, old, new) ==
  LET m == MatchesFrom(s, i, old)
      j == CHOOSE x \in m : \A y \in m : x <= y
  IN  IF m = {} THEN SubSeq(s, i, Len(s))
      ELSE SubSeq(s, i, j - 1) \o new \o StrReplaceFrom(s, j + Len(old), old, new)

StrReplace(s, old, new) == StrReplaceFrom(s, 1, old, new)

\* s.rfind(c) + 1: the last position of c in s, 0 when there is none
LastIndexOf(s, c) ==
  LET at == {i \in DOMAIN s : s[i] = c}
  IN  IF at = {} THEN 0 ELSE CHOOSE i \in at : \A j \in at : j <= i

\* Path(p).name and str(Path(p).parent) ("" stands for ".")
PathName(p) == SubSeq(p, LastIndexOf(p, "/") + 1, Len(p))
PathParent(p) == SubSeq(p, 1, LastIndexOf(p, "/") - 1)

\* parent / name
PathJoin(parent, name) == IF parent = <<>> THEN name ELSE parent \o <<"/">> \o name

\* Path(name).suffix: from the last dot, unless the dot is first or last
PathSuffix(name) ==
  LET i == LastIndexOf(name, ".")
  IN  IF 1 < i /\ i < Len(name) THEN SubSeq(name, i, Len(name)) ELSE <<>>

\* Path(name).stem
PathStem(name) == SubSeq(name, 1, Len(name) - Len(PathSuffix(name)))

\* VolvoPathFixer.WORD_REPLACEMENTS, in the order of the dict
WORD_REPLACEMENTS ==
  <<<<<<"T", "h", "e", " ">>,
       <<>>>>,
     <<<<" ", "a", "n", "d", " ">>,
       <<" ", "&", " ">>>>,
     <<<<" ", "A", "n", "d", " ">>,
       <<" ", "&", " ">>>>,
     <<<<"f", "e", "a", "t", "u", "r", "i", "n", "g">>,
       <<"f", "t">>>>,
     <<<<"F", "e", "a", "t", "u", "r", "i", "n", "g">>,
       <<"f", "t">>>>,
     <<<<"L", "i", "v", "e">>,
       <<"L", "v">>>>,
     <<<<"V", "e", "r", "s", "i", "o", "n">>,
       <<"V", "e", "r">>>>,
     <<<<"O", "r", "i", "g", "i", "n", "a", "l">>,
       <<"O", "r", "i", "g">>>>,
     <<<<"R", "e", "m", "a", "s", "t", "e", "r", "e", "d">>,
       <<"R", "m", "s", "t", "r">>>>,
     <<<<"D", "e", "l", "u", "x", "e">>,
       <<"D", "l", "x">>>>,
     <<<<"E", "d", "i", "t", "i", "o", "n">>,
       <<"E", "d">>>>,
     <<<<"C", "o", "l", "l", "e", "c", "t", "i", "o", "n">>,
       <<"C", "o", "l", "l">>>>,
     <<<<"G", "r", "e", "a", "t", "e", "s", "t">>,
       <<"G", "r", "t">>>>,
     <<<<"C", "o", "m", "p", "i", "l", "a", "t", "i", "o", "n">>,
       <<"C", "o", "m", "p">>>>,
     <<<<"A", "n", "n", "i", "v", "e", "r", "s", "a", "r", "y">>,
       <<"A", "n", "n", "i", "v">>>>,
     <<<<"P", "r", "e", "v", "i", "o", "u", "s", "l", "y">>,
       <<"P", "r", "e", "v">>>>,
     <<<<"U", "n", "r", "e", "l", "e", "a", "s", "e", "d">>,
       <<"U", "n", "r", "e", "l">>>>>>

\* for old, new in self.WORD_REPLACEMENTS.items(): stem = stem.replace(old, new)
RECURSIVE ApplyReplacements(_, _)
ApplyReplacements(s, table) ==
  IF table = <<>> THEN s
  ELSE ApplyReplacements(StrReplace(s, Head(table)[1], Head(table)[2]), Tail(table))

\* the length of the longest prefix of s made of characters of class
RunLen(s, class) ==
  LET out == {i \in DOMAIN s : s[i] \notin class}
  IN  IF out = {} THEN Len(s) ELSE (CHOOSE i \in out : \A j \in out : i <= j) - 1

\* the length of the match of ^(\d+[\s\-\.]*) at the start of s, 0 for no match
TrackMatchLen(s) ==
  LET d == RunLen(s, Digits)
  IN  IF d = 0 THEN 0 ELSE d + RunLen(SubSeq(s, d + 1, Len(s)), TrackSeparators)

\* VolvoPathFixer.MAX_FILENAME_LENGTH and MAX_PATH_LENGTH
FIXER_MAX_FILENAME_LENGTH == 64
FIXER_MAX_PATH_LENGTH == 60

_shorten_filename(filename) ==
  IF Len(filename) <= FIXER_MAX_FILENAME_LENGTH THEN filename
  ELSE
    LET ext == PathSuffix(filename)
        stem == ApplyReplacements(PathStem(filename), WORD_REPLACEMENTS)
        max_stem_length == FIXER_MAX_FILENAME_LENGTH - Len(ext)
        t == TrackMatchLen(stem)
        remaining_length == max_stem_length - t
    IN  (IF Len(stem) > max_stem_length
           THEN IF t > 0
                  THEN SubSeq(stem, 1, t) \o PySlice(stem, t, t + remaining_length)
                  ELSE PySlice(stem, 0, max_stem_length)
           ELSE stem) \o ext

\* VolvoUSBVerifier.UNSAFE_CHARS, each character written by its Unicode name
UNSAFE_CHARS ==
  {"LATIN SMALL LETTER U WITH DIAERESIS", "LATIN SMALL LETTER E WITH ACUTE",
    "LATIN SMALL LETTER N WITH TILDE", "LATIN SMALL LETTER A WITH GRAVE",
    "LATIN SMALL LETTER E WITH GRAVE", "LATIN SMALL LETTER I WITH GRAVE",
    "LATIN SMALL LETTER O WITH GRAVE", "LATIN SMALL LETTER U WITH GRAVE",
    "LATIN SMALL LETTER A WITH ACUTE", "LATIN SMALL LETTER I WITH ACUTE",
    "LATIN SMALL LETTER O WITH ACUTE", "LATIN SMALL LETTER U WITH ACUTE",
    "LATIN SMALL LETTER A WITH DIAERESIS",
    "LATIN SMALL LETTER E WITH DIAERESIS",
    "LATIN SMALL LETTER I WITH DIAERESIS",
    "LATIN SMALL LETTER O WITH DIAERESIS",
    "LATIN SMALL LETTER Y WITH DIAERESIS",
    "LATIN SMALL LETTER A WITH CIRCUMFLEX",
    "LATIN SMALL LETTER E WITH CIRCUMFLEX",
    "LATIN SMALL LETTER I WITH CIRCUMFLEX",
    "LATIN SMALL LETTER O WITH CIRCUMFLEX",
    "LATIN SMALL LETTER U WITH CIRCUMFLEX",
    "LATIN SMALL LETTER A WITH TILDE", "LATIN SMALL LETTER O WITH TILDE",
    "LATIN SMALL LETTER C WITH CEDILLA", "LATIN SMALL LETTER O WITH STROKE",
    "LATIN SMALL LETTER A WITH RING ABOVE", "LATIN SMALL LETTER AE",
    "LATIN SMALL LIGATURE OE", "INVERTED QUESTION MARK",
    "INVERTED EXCLAMATION MARK", "LEFT-POINTING DOUBLE ANGLE QUOTATION MARK",
    "RIGHT-POINTING DOUBLE ANGLE QUOTATION MARK", "DEGREE SIGN",
    "PLUS-MINUS SIGN", "SUPERSCRIPT TWO", "SUPERSCRIPT THREE", "MICRO SIGN",
    "PILCROW SIGN", "MIDDLE DOT", "CEDILLA", "SUPERSCRIPT ONE",
    "MASCULINE ORDINAL INDICATOR", "VULGAR FRACTION ONE QUARTER",
    "VULGAR FRACTION ONE HALF", "VULGAR FRACTION THREE QUARTERS",
    "MULTIPLICATION SIGN", "DIVISION SIGN" }

\* VolvoPathFixer.CHAR_REPLACEMENTS, in the order of the dict; a character
\* that is not an ASCII letter, digit or sign is written by its Unicode name
CHAR_REPLACEMENTS ==
  <<<<<<"LATIN SMALL LETTER E WITH ACUTE">>, <<"e">>>>,
     <<<<"LATIN SMALL LETTER E WITH GRAVE">>, <<"e">>>>,
     <<<<"LATIN SMALL LETTER E WITH CIRCUMFLEX">>, <<"e">>>>,
     <<<<"LATIN SMALL LETTER E WITH DIAERESIS">>, <<"e">>>>,
     <<<<"LATIN SMALL LETTER A WITH ACUTE">>, <<"a">>>>,
     <<<<"LATIN SMALL LETTER A WITH GRAVE">>, <<"a">>>>,
     <<<<"LATIN SMALL LETTER A WITH CIRCUMFLEX">>, <<"a">>>>,
     <<<<"LATIN SMALL LETTER A WITH DIAERESIS">>, <<"a">>>>,
     <<<<"LATIN SMALL LETTER A WITH TILDE">>, <<"a">>>>,
     <<<<"LATIN SMALL LETTER A WITH RING ABOVE">>, <<"a">>>>,
     <<<<"LATIN SMALL LETTER AE">>, <<"a", "e">>>>,
     <<<<"LATIN SMALL LETTER I WITH ACUTE">>, <<"i">>>>,
     <<<<"LATIN SMALL LETTER I WITH GRAVE">>, <<"i">>>>,
     <<<<"LATIN SMALL LETTER I WITH CIRCUMFLEX">>, <<"i">>>>,
     <<<<"LATIN SMALL LETTER I WITH DIAERESIS">>, <<"i">>>>,
     <<<<"LATIN SMALL LETTER O WITH ACUTE">>, <<"o">>>>,
     <<<<"LATIN SMALL LETTER O WITH GRAVE">>, <<"o">>>>,
     <<<<"LATIN SMALL LETTER O WITH CIRCUMFLEX">>, <<"o">>>>,
     <<<<"LATIN SMALL LETTER O WITH DIAERESIS">>, <<"o">>>>,
     <<<<"LATIN SMALL LETTER O WITH TILDE">>, <<"o">>>>,
     <<<<"LATIN SMALL LETTER O WITH STROKE">>, <<"o">>>>,
     <<<<"LATIN SMALL LIGATURE OE">>, <<"o", "e">>>>,
     <<<<"LATIN SMALL LETTER U WITH ACUTE">>, <<"u">>>>,
     <<<<"LATIN SMALL LETTER U WITH GRAVE">>, <<"u">>>>,
     <<<<"LATIN SMALL LETTER U WITH CIRCUMFLEX">>, <<"u">>>>,
     <<<<"LATIN SMALL LETTER U WITH DIAERESIS">>, <<"u">>>>,
     <<<<"LATIN SMALL LETTER N WITH TILDE">>, <<"n">>>>,
     <<<<"LATIN SMALL LETTER C WITH CEDILLA">>, <<"c">>>>,
     <<<<"INVERTED QUESTION MARK">>, <<>>>>,
     <<<<"INVERTED EXCLAMATION MARK">>, <<>>>>,
     <<<<"LEFT-POINTING DOUBLE ANGLE QUOTATION MARK">>, <<"QUOTATION MARK">>>>,
     <<<<"RIGHT-POINTING DOUBLE ANGLE QUOTATION MARK">>, <<"QUOTATION MARK">>>>,
     <<<<"DEGREE SIGN">>, <<>>>>,
     <<<<"PLUS-MINUS SIGN">>, <<"+">>>>,
     <<<<"SUPERSCRIPT TWO">>, <<"2">>>>,
     <<<<"SUPERSCRIPT THREE">>, <<"3">>>>,
     <<<<"MICRO SIGN">>, <<"u">>>>,
     <<<<"PILCROW SIGN">>, <<>>>>,
     <<<<"MIDDLE DOT">>, <<>>>>,
     <<<<"CEDILLA">>, <<>>>>,
     <<<<"SUPERSCRIPT ONE">>, <<"1">>>>,
     <<<<"MASCULINE ORDINAL INDICATOR">>, <<"o">>>>,
     <<<<"VULGAR FRACTION ONE QUARTER">>, <<"1", "-", "4">>>>,
     <<<<"VULGAR FRACTION ONE HALF">>, <<"1", "-", "2">>>>,
     <<<<"VULGAR FRACTION THREE QUARTERS">>, <<"3", "-", "4">>>>,
     <<<<"MULTIPLICATION SIGN">>, <<"x">>>>,
     <<<<"DIVISION SIGN">>, <<"/">>>>,
     <<<<"LATIN SMALL LETTER Y WITH DIAERESIS">>, <<"y">>>>>>

\* what the loop of replace calls makes of one character: every key of
\* the dict is a single character and no replacement contains a key, so
\* the calls act on each character of the path on its own
CharReplacement(c) ==
  LET hit == {k \in DOMAIN CHAR_REPLACEMENTS : CHAR_REPLACEMENTS[k][1] = <<c>>}
  IN  IF hit = {} THEN <<c>> ELSE CHAR_REPLACEMENTS[CHOOSE k \in hit : TRUE][2]

\* the concatenation of parts[lo], ..., parts[hi]
RECURSIVE ConcatRange(_, _, _)
ConcatRange(parts, lo, hi) ==
  IF lo > hi THEN <<>>
  ELSE IF lo = hi THEN parts[lo]
  ELSE ConcatRange(parts, lo, (lo + hi) \div 2)
       \o ConcatRange(parts, (lo + hi) \div 2 + 1, hi)

_fix_invalid_chars(path_str) ==
  ConcatRange([i \in DOMAIN path_str |-> CharReplacement(path_str[i])],
              1, Len(path_str))

\* the proper ancestors of a relative path: what mkdir(parents=True) creates
Ancestors(p) == {SubSeq(p, 1, i - 1) : i \in {k \in DOMAIN p : p[k] = "/"}}

\* ------------------------------------------------------------ state
VARIABLES
  fx,             \* the fixer object: VolvoPathFixer or VolvoUSBFixer
  drive,          \* the files and folders below the fixer's drive_path
  issues,         \* the rows of the CSV file given to the fixer
  root_kind,      \* what sys.argv[1] names: "dir", "file" or "missing"
  main_pc,        \* position of main: "start", "verifying" or "exited"
  log_file,       \* setup_logging has created the log file of this run
  tree,           \* the directory tree under drive_path (never modified)
  run,            \* number of the current scan of the tree
  num_threads,    \* self.num_threads
  pc,             \* phase of verify_all
  step,           \* position inside verify_audio_files
  errors,         \* self.errors
  warnings,       \* self.warnings
  info,           \* self.info
  problem_files,  \* self.problem_files
  file_stats,     \* self.file_stats
  audio_files,    \* local audio_files of verify_audio_files (file indices)
  task,           \* state of the future of each audio file
  result,         \* outcome stored in each finished future
  snapshot,       \* as_completed: futures found finished when it was called
  waiterq,        \* as_completed: waiter.finished_futures, in finishing order
  display,        \* local problem_files of verify_audio_files
  probes,         \* per task, how often the mutagen constructor was called
  logged,         \* what self.log printed of the issue list and the report
  csv,            \* the CSV file written by export_csv
  passed,         \* return value of verify_all
  exit_code,      \* argument of sys.exit in main (-1: still running)
  prev            \* outcome of the previous scan of the same tree

vars ==
  <<fx, drive, issues, root_kind, main_pc, log_file,
    tree, run, num_threads, pc, step, errors, warnings, info, problem_files,
    file_stats, audio_files, task, result, snapshot, waiterq, display, probes,
    logged, csv, passed, exit_code, prev>>

\* no fixer is run
NoStats ==
  [invalid_chars_fixed |-> 0, filenames_shortened |-> 0, files_renamed |-> 0,
   added_tags |-> 0, converted_tags |-> 0, converted_unusual_tags |-> 0,
   removed_artwork |-> 0, files_modified |-> 0]

NoFixer ==
  [tool |-> "none", dry_run |-> TRUE, pc |-> "none", todo |-> <<>>,
   fixed_files |-> <<>>, failed_files |-> <<>>, paths_too_long |-> <<>>,
   stats |-> NoStats, log |-> <<>>]

NoDrive == [files |-> <<>>, dirs |-> {}, posix |-> TRUE]

NoResult == [raised |-> FALSE, display |-> <<>>, csv |-> <<>>, probes |-> 0]

NoCsv == [written |-> FALSE, rows |-> <<>>]

Outcome ==
  [errors |-> errors, warnings |-> warnings, info |-> info,
   problem_files |-> problem_files, display |-> display, logged |-> logged,
   csv |-> csv, passed |-> passed, num_threads |-> num_threads,
   file_stats |-> file_stats]

NoOutcome ==
  [errors |-> <<>>, warnings |-> <<>>, info |-> <<>>, problem_files |-> <<>>,
   display |-> <<>>, logged |-> <<>>, csv |-> NoCsv, passed |-> FALSE,
   num_threads |-> 0, file_stats |-> [e \in SUPPORTED_FORMATS |-> 0]]

\* verify_all returning right after verify_audio_files
NextPhaseEarlyReturn(p) ==
  CASE p = "Idle" -> "ScanningStructure"
    [] p = "ScanningStructure" -> "ScanningAudio"
    [] OTHER -> "Done"

\* the order of the calls in verify_all
NextPhase(p) ==
  CASE p = "Idle" -> "ScanningStructure"
    [] p = "ScanningStructure" -> "ScanningAudio"
    [] p = "ScanningAudio" -> "Reporting"
    [] OTHER -> "Done"

Tasks == 1..Len(audio_files)

\* VolvoUSBVerifier.__init__ as called by main, and the fields a scan starts with
Fresh ==
  /\ pc = "Idle"
  /\ step = "none"
  /\ errors = <<>>
  /\ warnings = <<>>
  /\ info = <<>>
  /\ problem_files = <<>>
  /\ file_stats = [e \in SUPPORTED_FORMATS |-> 0]
  /\ audio_files = <<>>
  /\ task = <<>>
  /\ result = <<>>
  /\ snapshot = {}
  /\ waiterq = <<>>
  /\ display = <<>>
  /\ probes = <<>>
  /\ logged = <<>>
  /\ csv = NoCsv
  /\ passed = FALSE
  /\ exit_code = -1

\* os.cpu_count(): the number of logical processors, 0 for None
CpuCounts == {0, 1}

\* self.num_threads = num_threads or (os.cpu_count() or 4) * 2, with 0 for
\* an argument of None
InitNumThreads(arg, cpu_count) ==
  IF arg # 0 THEN arg ELSE (IF cpu_count # 0 THEN cpu_count ELSE 4) * 2

\* the state in which main calls verify_all: the checks of the path have
\* passed, the log file exists and the verifier is constructed
Init ==
  /\ fx = NoFixer
  /\ drive = NoDrive
  /\ issues = <<>>
  /\ root_kind = "dir"
  /\ main_pc = "verifying"
  /\ log_file = TRUE
  /\ tree \in Trees
  /\ run = 1
  /\ \E arg \in 0..MaxThreads, c \in CpuCounts :
       /\ arg = 0 => tree \in TreesSample
       /\ num_threads = InitNumThreads(arg, c)
  /\ prev = NoOutcome
  /\ Fresh

\* verify_all up to and including verify_filesystem
StartScan ==
  /\ pc = "Idle"
  /\ pc' = NextPhase(pc)
  /\ errors' = errors \o FilesystemFindings(tree).errors
  /\ warnings' = warnings \o FilesystemFindings(tree).warnings
  /\ info' = info \o FilesystemFindings(tree).info
  /\ UNCHANGED <<fx, drive, issues, root_kind, main_pc, log_file,
                 tree, run, num_threads, step, problem_files, file_stats,
                 audio_files, task, result, snapshot, waiterq, display, probes,
                 logged, csv, passed, exit_code, prev>>

\* verify_structure: the walk and "Report findings"
VerifyStructure ==
  /\ pc = "ScanningStructure"
  /\ pc' = NextPhase(pc)
  /\ step' = "collect"
  /\ problem_files' = problem_files \o StructureRows(tree)
  /\ errors' = errors \o StructureErrors(tree)
  /\ info' = info \o StructureInfo(tree)
  /\ UNCHANGED <<fx, drive, issues, root_kind, main_pc, log_file,
                 tree, run, num_threads, warnings, file_stats, audio_files,
                 task, result, snapshot, waiterq, display, probes, logged, csv,
                 passed, exit_code, prev>>

\* verify_audio_files, first pass, and the creation of the executor
CollectAudioFiles ==
  /\ pc = "ScanningAudio" /\ step = "collect"
  /\ step' = "submit"
  /\ errors' = errors \o UnsupportedErrors(tree)
  /\ audio_files' = CollectedAudioFiles(tree)
  /\ file_stats' = [e \in SUPPORTED_FORMATS |-> file_stats[e] + CollectedStats(tree)[e]]
  /\ task' = [k \in 1..Len(CollectedAudioFiles(tree)) |-> "new"]
  /\ result' = [k \in 1..Len(CollectedAudioFiles(tree)) |-> NoResult]
  /\ probes' = [k \in 1..Len(CollectedAudioFiles(tree)) |-> 0]
  /\ UNCHANGED <<fx, drive, issues, root_kind, main_pc, log_file,
                 tree, run, num_threads, pc, warnings, info, problem_files,
                 snapshot, waiterq, display, logged, csv, passed, exit_code, prev>>

\* executor.submit of the next file of audio_files (the dict comprehension)
Submit ==
  /\ pc = "ScanningAudio" /\ step = "submit"
  /\ \E k \in Tasks :
       /\ task[k] = "new"
       /\ \A j \in 1..(k - 1) : task[j] # "new"
       /\ task' = [task EXCEPT ![k] = "queued"]
  /\ UNCHANGED <<fx, drive, issues, root_kind, main_pc, log_file,
                 tree, run, num_threads, pc, step, errors, warnings, info,
                 problem_files, file_stats, audio_files, result, snapshot,
                 waiterq, display, probes, logged, csv, passed, exit_code, prev>>

Running == {k \in Tasks : task[k] = "running"}

\* a pool that starts a thread for every queued work item
WorkerStartUnbounded ==
  /\ pc = "ScanningAudio"
  /\ \E k \in Tasks :
       /\ task[k] = "queued"
       /\ \A j \in 1..(k - 1) : task[j] # "queued"
       /\ task' = [task EXCEPT ![k] = "running"]
  /\ UNCHANGED <<fx, drive, issues, root_kind, main_pc, log_file,
                 tree, run, num_threads, pc, step, errors, warnings, info,
                 problem_files, file_stats, audio_files, result, snapshot,
                 waiterq, display, probes, logged, csv, passed, exit_code, prev>>

\* a pool thread takes the oldest queued work item
WorkerStart ==
  /\ pc = "ScanningAudio"
  /\ Cardinality(Running) < num_threads
  /\ \E k \in Tasks :
       /\ task[k] = "queued"
       /\ \A j \in 1..(k - 1) : task[j] # "queued"
       /\ task' = [task EXCEPT ![k] = "running"]
  /\ UNCHANGED <<fx, drive, issues, root_kind, main_pc, log_file,
                 tree, run, num_threads, pc, step, errors, warnings, info,
                 problem_files, file_stats, audio_files, result, snapshot,
                 waiterq, display, probes, logged, csv, passed, exit_code, prev>>

\* a future that queues itself for as_completed whether or not a waiter
\* is installed
WorkerFinishAlwaysNotify ==
  /\ pc = "ScanningAudio"
  /\ \E k \in Running :
       LET r == _verify_audio_file(tree.files[audio_files[k]], audio_files[k]) IN
       /\ task' = [task EXCEPT ![k] = "finished"]
       /\ result' = [result EXCEPT ![k] = [r EXCEPT !.probes = 0]]
       /\ probes' = [probes EXCEPT ![k] = @ + r.probes]
       /\ waiterq' = Append(waiterq, k)
  /\ UNCHANGED <<fx, drive, issues, root_kind, main_pc, log_file,
                 tree, run, num_threads, pc, step, errors, warnings, info,
                 problem_files, file_stats, audio_files, snapshot, display,
                 logged, csv, passed, exit_code, prev>>

\* a task that extends self.problem_files itself besides returning its rows
WorkerFinishWrites ==
  /\ pc = "ScanningAudio"
  /\ \E k \in Running :
       LET r == _verify_audio_file(tree.files[audio_files[k]], audio_files[k]) IN
       /\ task' = [task EXCEPT ![k] = "finished"]
       /\ result' = [result EXCEPT ![k] = [r EXCEPT !.probes = 0]]
       /\ probes' = [probes EXCEPT ![k] = @ + r.probes]
       /\ waiterq' = IF step = "drain" THEN Append(waiterq, k) ELSE waiterq
       /\ problem_files' = problem_files \o r.csv
  /\ UNCHANGED <<fx, drive, issues, root_kind, main_pc, log_file,
                 tree, run, num_threads, pc, step, errors, warnings, info,
                 file_stats, audio_files, snapshot, display,
                 logged, csv, passed, exit_code, prev>>

\* a pool thread finishes _verify_audio_file and sets the future's outcome;
\* a waiter installed by as_completed is notified
WorkerFinish ==
  /\ pc = "ScanningAudio"
  /\ \E k \in Running :
       LET r == _verify_audio_file(tree.files[audio_files[k]], audio_files[k]) IN
       /\ task' = [task EXCEPT ![k] = "finished"]
       /\ result' = [result EXCEPT ![k] = [r EXCEPT !.probes = 0]]
       /\ probes' = [probes EXCEPT ![k] = @ + r.probes]
       /\ waiterq' = IF step = "drain" THEN Append(waiterq, k) ELSE waiterq
  /\ UNCHANGED <<fx, drive, issues, root_kind, main_pc, log_file,
                 tree, run, num_threads, pc, step, errors, warnings, info,
                 problem_files, file_stats, audio_files, snapshot, display,
                 logged, csv, passed, exit_code, prev>>

\* the call of as_completed(future_to_file): the futures already finished
\* are set aside (a set: they are yielded in no particular order)
AsCompleted ==
  /\ pc = "ScanningAudio" /\ step = "submit"
  /\ \A k \in Tasks : task[k] # "new"
  /\ step' = "drain"
  /\ snapshot' = {k \in Tasks : task[k] = "finished"}
  /\ UNCHANGED <<fx, drive, issues, root_kind, main_pc, log_file,
                 tree, run, num_threads, pc, errors, warnings, info,
                 problem_files, file_stats, audio_files, task, result, waiterq,
                 display, probes, logged, csv, passed, exit_code, prev>>

\* problem_files.extend(file_issues['display'])
ExtendDisplay(list, r) == list \o r.display

\* self.problem_files = file_issues['csv'] in place of extend
AssignCsv(list, r) == r.csv

\* self.problem_files.extend(file_issues['csv'])
ExtendCsv(list, r) == list \o r.csv

\* the aggregation loop recording a raised future in the display list only
AggregateDisplayOnly(k) ==
  LET r == result[k]
      id == audio_files[k]
  IN  /\ task' = [task EXCEPT ![k] = "taken"]
      /\ IF r.raised
           THEN /\ display' = Append(display, Msg("Error processing", id, 0))
                /\ UNCHANGED problem_files
           ELSE IF r.display # <<>>
                  THEN /\ display' = ExtendDisplay(display, r)
                       /\ problem_files' = ExtendCsv(problem_files, r)
                  ELSE UNCHANGED <<display, problem_files>>

\* the loop body without "except Exception": future.result() re-raises the
\* task's exception in the main thread and the scan is abandoned
AggregateNoCatch(k) ==
  LET r == result[k]
  IN  /\ ~r.raised
      /\ task' = [task EXCEPT ![k] = "taken"]
      /\ IF r.display # <<>>
           THEN /\ display' = ExtendDisplay(display, r)
                /\ problem_files' = ExtendCsv(problem_files, r)
           ELSE UNCHANGED <<display, problem_files>>

\* the body of "for future in as_completed(...)" for the future of task k
Aggregate(k) ==
  LET r == result[k]
      id == audio_files[k]
  IN  /\ task' = [task EXCEPT ![k] = "taken"]
      /\ IF r.raised
           THEN /\ display' = Append(display, Msg("Error processing", id, 0))
                /\ problem_files' =
                     Append(problem_files,
                            Row(id, "Processing Error", "Error", "str(e)", 0))
           ELSE IF r.display # <<>>
                  THEN /\ display' = ExtendDisplay(display, r)
                       /\ problem_files' = ExtendCsv(problem_files, r)
                  ELSE UNCHANGED <<display, problem_files>>

\* as_completed yields the next future: first the ones set aside, in any
\* order, then the others in the order in which they finished
Take ==
  /\ pc = "ScanningAudio" /\ step = "drain"
  /\ \/ /\ snapshot # {}
        /\ \E k \in snapshot :
             /\ Aggregate(k)
             /\ snapshot' = snapshot \ {k}
        /\ UNCHANGED waiterq
     \/ /\ snapshot = {}
        /\ waiterq # <<>>
        /\ Aggregate(Head(waiterq))
        /\ waiterq' = Tail(waiterq)
        /\ UNCHANGED snapshot
  /\ UNCHANGED <<fx, drive, issues, root_kind, main_pc, log_file,
                 tree, run, num_threads, pc, step, errors, warnings, info,
                 file_stats, audio_files, result, probes, logged, csv, passed,
                 exit_code, prev>>

\* "Report issues (limit output)"
IssueLog(list) ==
  IF list = <<>> THEN <<>>
  ELSE <<Msg("Found N file issues (showing first 20)", 0, Len(list))>>
       \o Prefix(list, IssueCap)
       \o (IF Len(list) > IssueCap
             THEN <<Msg("... and N more issues", 0, Len(list) - IssueCap)>>
             ELSE <<>>)

\* the loop over as_completed ends, the executor shuts down, the statistics
\* and the issue list are logged
ReportIssues ==
  /\ pc = "ScanningAudio" /\ step = "drain"
  /\ \A k \in Tasks : task[k] = "taken"
  /\ pc' = NextPhase(pc)
  /\ step' = "none"
  /\ logged' = logged \o IssueLog(display)
  /\ UNCHANGED <<fx, drive, issues, root_kind, main_pc, log_file,
                 tree, run, num_threads, errors, warnings, info, problem_files,
                 file_stats, audio_files, task, result, snapshot, waiterq,
                 display, probes, csv, passed, exit_code, prev>>

\* print_report
ReportLog ==
  (IF info # <<>> THEN <<Msg("PASSED CHECKS", 0, 0)>> \o info ELSE <<>>)
  \o (IF warnings # <<>>
        THEN <<Msg("WARNINGS", 0, Len(warnings))>> \o warnings ELSE <<>>)
  \o (IF errors # <<>>
        THEN <<Msg("ERRORS", 0, Len(errors))>> \o errors ELSE <<>>)
  \o (IF errors = <<>>
        THEN <<Msg("RESULT: Drive appears compatible", 0, 0)>>
        ELSE <<Msg("RESULT: Issues found", 0, 0)>>)

\* export_csv, reached when self.problem_files is not empty (main sets csv_file)
export_csv == [written |-> TRUE, rows |-> problem_files]

\* the rest of verify_all (print_report, export_csv, the return value) and
\* sys.exit in main
PrintReport ==
  /\ pc = "Reporting"
  /\ pc' = NextPhase(pc)
  /\ logged' = logged \o ReportLog
  /\ csv' = IF problem_files # <<>> THEN export_csv ELSE csv
  /\ passed' = (Len(errors) = 0)
  /\ exit_code' = IF Len(errors) = 0 THEN 0 ELSE 1
  /\ UNCHANGED <<fx, drive, issues, root_kind, main_pc, log_file,
                 tree, run, num_threads, step, errors, warnings, info,
                 problem_files, file_stats, audio_files, task, result, snapshot,
                 waiterq, display, probes, prev>>

\* main is run again on the unmodified tree: a new process, a new verifier
NewScan ==
  /\ pc = "Done"
  /\ run < MaxRuns
  /\ run' = run + 1
  /\ prev' = Outcome
  /\ num_threads' \in 1..MaxThreads
  /\ pc' = "Idle"
  /\ step' = "none"
  /\ errors' = <<>>
  /\ warnings' = <<>>
  /\ info' = <<>>
  /\ problem_files' = <<>>
  /\ file_stats' = [e \in SUPPORTED_FORMATS |-> 0]
  /\ audio_files' = <<>>
  /\ task' = <<>>
  /\ result' = <<>>
  /\ snapshot' = {}
  /\ waiterq' = <<>>
  /\ display' = <<>>
  /\ probes' = <<>>
  /\ logged' = <<>>
  /\ csv' = NoCsv
  /\ passed' = FALSE
  /\ exit_code' = -1
  /\ UNCHANGED <<fx, drive, issues, root_kind, main_pc, log_file, tree>>

Next ==
  \/ StartScan
  \/ VerifyStructure
  \/ CollectAudioFiles
  \/ Submit
  \/ WorkerStart
  \/ WorkerFinish
  \/ AsCompleted
  \/ Take
  \/ ReportIssues
  \/ PrintReport
  \/ NewScan

Spec == Init /\ [][Next]_vars

\* ------------------------------------------------------------ main
\* the tree given to a run of main: what is below a directory
EmptyTree ==
  [parent |-> <<0>>, nClean |-> <<0>>, files |-> <<>>, isFsRoot |-> FALSE,
   fs |-> "fat32"]

\* the process at the entry of main, with a path argument
InitMain ==
  /\ fx = NoFixer
  /\ drive = NoDrive
  /\ issues = <<>>
  /\ root_kind \in {"dir", "file", "missing"}
  /\ main_pc = "start"
  /\ log_file = FALSE
  /\ tree \in IF root_kind = "dir" THEN TreesRate \cup TreesEdge ELSE {EmptyTree}
  /\ run = 1
  /\ num_threads \in {InitNumThreads(0, c) : c \in CpuCounts}
  /\ prev = NoOutcome
  /\ pc = "NoScan"
  /\ step = "none"
  /\ errors = <<>>
  /\ warnings = <<>>
  /\ info = <<>>
  /\ problem_files = <<>>
  /\ file_stats = [e \in SUPPORTED_FORMATS |-> 0]
  /\ audio_files = <<>>
  /\ task = <<>>
  /\ result = <<>>
  /\ snapshot = {}
  /\ waiterq = <<>>
  /\ display = <<>>
  /\ probes = <<>>
  /\ logged = <<>>
  /\ csv = NoCsv
  /\ passed = FALSE
  /\ exit_code = -1

\* main with setup_logging called before the checks of the path
MainStartLogFirst ==
  /\ main_pc = "start"
  /\ log_file' = TRUE
  /\ IF root_kind = "dir"
       THEN /\ main_pc' = "verifying"
            /\ pc' = "Idle"
            /\ UNCHANGED exit_code
       ELSE /\ main_pc' = "exited"
            /\ exit_code' = 1
            /\ UNCHANGED pc
  /\ UNCHANGED <<fx, drive, issues, root_kind, tree, run, num_threads, step, errors, warnings,
                 info, problem_files, file_stats, audio_files, task, result,
                 snapshot, waiterq, display, probes, logged, csv, passed, prev>>

\* main up to the call of verify_all: os.path.exists, os.path.isdir,
\* setup_logging, VolvoUSBVerifier(drive_path)
MainStart ==
  /\ main_pc = "start"
  /\ IF root_kind = "dir"
       THEN /\ main_pc' = "verifying"
            /\ log_file' = TRUE
            /\ pc' = "Idle"
            /\ UNCHANGED exit_code
       ELSE /\ main_pc' = "exited"
            /\ exit_code' = 1
            /\ UNCHANGED <<log_file, pc>>
  /\ UNCHANGED <<fx, drive, issues, root_kind, tree, run, num_threads, step, errors, warnings,
                 info, problem_files, file_stats, audio_files, task, result,
                 snapshot, waiterq, display, probes, logged, csv, passed, prev>>

MainNext == MainStart \/ Next

SpecMain == InitMain /\ [][MainNext]_vars

\* ------------------------------------------------------------ fixers: inputs
Mp3Ext == <<".", "m", "p", "3">>

\* One file named in the CSV given to a fixer.  path: its file_path;
\* types: the issue types of its rows; exists: whether it is on the drive;
\* content: what mutagen reads from it.
\* loads: MP3(full_path) succeeds; tagver: <<0, 0>> for no ID3v2 tag; v1: an
\* ID3v1 tag is present; apic: number of APIC frames; locked: saving raises.
CleanTags ==
  [loads |-> TRUE, tagver |-> <<2, 3>>, v1 |-> FALSE, apic |-> 0, locked |-> FALSE]

PathEntry(path, types, exists) ==
  [path |-> path, exists |-> exists, content |-> CleanTags,
   rows |-> [k \in 1..Len(types) |->
               [file_path |-> path, issue_type |-> types[k], description |-> ""]]]

LongNameTypes == <<"Path Length", "Filename Length">>

PathEntries ==
  { PathEntry(<<"0", "1", " ", "-", " ">> \o Rep("a", 70) \o Mp3Ext, LongNameTypes, TRUE),
    PathEntry(Rep("a", FIXER_MAX_FILENAME_LENGTH - 3) \o Mp3Ext, LongNameTypes, TRUE),
    PathEntry(Rep("a", FIXER_MAX_FILENAME_LENGTH - 2) \o Mp3Ext, LongNameTypes, TRUE),
    PathEntry(Rep("1", FIXER_MAX_FILENAME_LENGTH - 3) \o Mp3Ext, LongNameTypes, TRUE),
    PathEntry(<<"a", ".">> \o Rep("x", 70), LongNameTypes, TRUE),
    PathEntry(<<"T", "h", "e", " ", "L", "i", "v", "e", " ">> \o Rep("a", 60) \o Mp3Ext,
              LongNameTypes, TRUE),
    PathEntry(<<"a">> \o Mp3Ext, <<"Filename Length">>, TRUE),
    PathEntry(<<"g", "o", "n", "e">> \o Mp3Ext, <<"Filename Length">>, FALSE),
    PathEntry(<<"d", "/", "x", ".", "t", "x", "t">>, <<"Path Length">>, TRUE),
    PathEntry(<<"d", "/", "LATIN SMALL LETTER E WITH ACUTE">> \o Mp3Ext,
              <<"Invalid Characters">>, TRUE),
    PathEntry(<<"LATIN SMALL LETTER E WITH ACUTE", "/", "a">> \o Mp3Ext,
              <<"Invalid Characters">>, TRUE),
    PathEntry(<<"a", "DIVISION SIGN", "b">> \o Mp3Ext, <<"Invalid Characters">>, TRUE) }

UsbEntry(name, ext, rows, exists, content) ==
  [path |-> name \o ext, exists |-> exists, content |-> content,
   rows |-> [k \in 1..Len(rows) |->
               [file_path |-> name \o ext, issue_type |-> rows[k][1],
                description |-> rows[k][2]]]]

Row24 == <<"ID3 Tags", "ID3v2.4 (ID3v2.3 recommended)">>
Tags24 == [CleanTags EXCEPT !.tagver = <<2, 4>>]

UsbEntries ==
  { UsbEntry(<<"a">>, Mp3Ext, <<<<"ID3 Tags", "No ID3 tags found">>>>, TRUE,
             [CleanTags EXCEPT !.tagver = <<0, 0>>]),
    UsbEntry(<<"b">>, Mp3Ext, <<Row24, <<"Album Art", "Large artwork">>>>, TRUE,
             [Tags24 EXCEPT !.apic = 1]),
    UsbEntry(<<"c">>, Mp3Ext, <<<<"ID3 Tags", "Unusual ID3 version">>>>, TRUE,
             [CleanTags EXCEPT !.tagver = <<2, 2>>]),
    UsbEntry(<<"d">>, Mp3Ext, <<<<"Bitrate", "144 kbps is forbidden">>>>, TRUE,
             CleanTags),
    UsbEntry(<<"e">>, <<".", "w", "m", "a">>, <<<<"Bitrate", "kbps (range)">>>>,
             TRUE, CleanTags),
    UsbEntry(<<"g", "o", "n", "e">>, Mp3Ext, <<Row24>>, FALSE, Tags24),
    UsbEntry(<<"f">>, Mp3Ext, <<Row24>>, TRUE, [Tags24 EXCEPT !.loads = FALSE]),
    UsbEntry(<<"g">>, Mp3Ext, <<Row24>>, TRUE, [Tags24 EXCEPT !.locked = TRUE]),
    UsbEntry(<<"h">>, Mp3Ext, <<Row24>>, TRUE, [CleanTags EXCEPT !.tagver = <<0, 0>>]),
    UsbEntry(<<"i">>, <<".", "M", "P", "3">>, <<Row24>>, TRUE, Tags24) }

\* the jobs of a fixer: the files named in the CSV, in the order of its rows
Jobs(entries) ==
  { j \in UNION {[1..k -> entries] : k \in 1..MaxJobs} :
      \A a, b \in DOMAIN j : a # b => j[a].path # j[b].path }

\* the drive holding the files of a job
DriveOf(j, posix) ==
  LET on == {k \in DOMAIN j : j[k].exists}
      paths == {j[k].path : k \in on}
  IN  [files |-> [q \in paths |->
                    [id |-> q,
                     tags |-> j[CHOOSE k \in on : j[k].path = q].content]],
       dirs |-> UNION {Ancestors(q) : q \in paths},
       posix |-> posix]

\* ------------------------------------------------------------ VolvoPathFixer
PathFixerTypes == {"Filename Length", "Invalid Characters", "Path Length"}

\* the keys of issues_by_file in insertion order: the file paths of the
\* rows in the order of their first row
RECURSIVE FirstSeen(_, _)
FirstSeen(rows, seen) ==
  IF rows = <<>> THEN <<>>
  ELSE IF Head(rows).file_path \in seen
         THEN FirstSeen(Tail(rows), seen)
         ELSE <<Head(rows).file_path>>
              \o FirstSeen(Tail(rows), seen \cup {Head(rows).file_path})

\* VolvoPathFixer.load_issues: the rows of the three issue types
PathLoadIssues(rows) ==
  LET Keep(r) == r.issue_type \in PathFixerTypes
  IN  FirstSeen(SelectSeq(rows, Keep), {})

\* issues_by_file[file_path]
RowsOf(rows, file_path) ==
  LET Mine(r) == r.file_path = file_path IN SelectSeq(rows, Mine)

TypesOf(rows, file_path) ==
  {RowsOf(rows, file_path)[k].issue_type : k \in DOMAIN RowsOf(rows, file_path)}

\* full_path.rename(new_full_path) after new_full_path.parent.mkdir(
\* parents=True, exist_ok=True): the drive afterwards and whether an
\* exception was raised
Rename(drv, old, new) ==
  LET made == [drv EXCEPT !.dirs = @ \cup Ancestors(new)]
      moved == [made EXCEPT !.files =
                  [q \in (DOMAIN drv.files \ {old}) \cup {new} |->
                     IF q = new THEN drv.files[old] ELSE drv.files[q]]]
  IN  IF Ancestors(new) \cap DOMAIN drv.files # {}
        THEN [drive |-> drv, raised |-> TRUE]
        ELSE IF new \in drv.dirs
               THEN [drive |-> made, raised |-> TRUE]
               ELSE IF new \in DOMAIN drv.files /\ ~drv.posix
                      THEN [drive |-> made, raised |-> TRUE]
                      ELSE [drive |-> moved, raised |-> FALSE]

\* _process_file, with the test of self.dry_run given as dry
PathFixOutcome(dry, f, drv, file_path, types) ==
  IF file_path \notin DOMAIN drv.files
    THEN [fx |-> [f EXCEPT !.failed_files = Append(@, <<file_path, "File not found">>)],
          drive |-> drv]
    ELSE
      LET has_long_filename == "Filename Length" \in types
          has_invalid_chars == "Invalid Characters" \in types
          fixed == IF has_invalid_chars THEN _fix_invalid_chars(file_path)
                   ELSE file_path
          new_path == IF has_long_filename
                        THEN PathJoin(PathParent(fixed),
                                      _shorten_filename(PathName(fixed)))
                        ELSE fixed
          too_long == Len(new_path) > FIXER_MAX_PATH_LENGTH
          fixes_applied ==
            (IF has_invalid_chars THEN <<"Replaced invalid characters">> ELSE <<>>)
            \o (IF has_long_filename THEN <<"Shortened filename">> ELSE <<>>)
            \o (IF too_long THEN <<"WARNING: Path exceeds limit">> ELSE <<>>)
          f1 == [f EXCEPT
                   !.stats.invalid_chars_fixed =
                      @ + (IF has_invalid_chars THEN 1 ELSE 0),
                   !.stats.filenames_shortened =
                      @ + (IF has_long_filename THEN 1 ELSE 0),
                   !.paths_too_long =
                      IF too_long THEN Append(@, <<file_path, new_path, Len(new_path)>>)
                      ELSE @]
          r == Rename(drv, file_path, new_path)
      IN  IF fixes_applied = <<>> THEN [fx |-> f1, drive |-> drv]
          ELSE IF new_path = file_path
            THEN [fx |-> [f1 EXCEPT !.log =
                            IF dry THEN Append(@, <<"File with issues (cannot fix)", file_path>>)
                            ELSE @],
                  drive |-> drv]
          ELSE IF dry
            THEN [fx |-> [f1 EXCEPT
                            !.log = Append(@, <<"Would rename", file_path>>),
                            !.fixed_files = Append(@, <<file_path, new_path>>)],
                  drive |-> drv]
          ELSE IF r.raised
            THEN [fx |-> [f1 EXCEPT
                            !.log = Append(@, <<"Failed to rename", file_path>>),
                            !.failed_files = Append(@, <<file_path, "str(e)">>)],
                  drive |-> r.drive]
          ELSE [fx |-> [f1 EXCEPT
                          !.log = Append(@, <<"Renamed", file_path>>),
                          !.fixed_files = Append(@, <<file_path, new_path>>),
                          !.stats.files_renamed = @ + 1],
                drive |-> r.drive]

\* _process_file renaming whatever self.dry_run says
_process_file_live(f, drv, file_path, types) ==
  PathFixOutcome(FALSE, f, drv, file_path, types)

\* VolvoPathFixer._process_file
_process_file(f, drv, file_path, types) ==
  PathFixOutcome(f.dry_run, f, drv, file_path, types)

\* ------------------------------------------------------------ VolvoUSBFixer
\* str.lower() on the characters of a suffix
LowerChar(c) ==
  CASE c = "M" -> "m" [] c = "P" -> "p" [] c = "W" -> "w" [] c = "A" -> "a"
    [] OTHER -> c

LowerChars(str) == [k \in DOMAIN str |-> LowerChar(str[k])]

\* phrase in text, for the descriptions and issue types the verifier writes
Mentions(text, phrase) ==
  <<text, phrase>> \in
    { <<"ID3 Tags", "ID3">>, <<"Album Art", "Album Art">>,
      <<"No ID3 tags found", "No ID3 tags found">>,
      <<"ID3v2.4 (ID3v2.3 recommended)", "ID3v2.4">>,
      <<"Unusual ID3 version", "Unusual ID3 version">>,
      <<"Large artwork", "Large artwork">> }

\* VolvoUSBFixer.load_issues: every row, grouped by file path
UsbLoadIssues(rows) == FirstSeen(rows, {})

\* audio.save(v1=2, v2_version=3) on the tags as modified in memory
SavedTags(tags, stripped) ==
  [tags EXCEPT
     !.tagver = <<2, 3>>,
     !.v1 = TRUE,
     !.apic = IF stripped THEN 0 ELSE @]

\* VolvoUSBFixer._process_file and fix_mp3_file, with the tests of
\* self.dry_run given as dry
UsbFixOutcome(dry, f, drv, file_path, rows) ==
  IF file_path \notin DOMAIN drv.files
    THEN [fx |-> [f EXCEPT !.failed_files = Append(@, <<file_path, "File not found">>)],
          drive |-> drv]
    ELSE IF LowerChars(PathSuffix(PathName(file_path))) # Mp3Ext
      THEN [fx |-> f, drive |-> drv]
    ELSE
      LET IsId3(r) == Mentions(r.issue_type, "ID3") \/ Mentions(r.issue_type, "Album Art")
          id3_issues == SelectSeq(rows, IsId3)
          AnyHas(phrase) == \E k \in DOMAIN id3_issues :
                           Mentions(id3_issues[k].description, phrase)
          tags == drv.files[file_path].tags
          has_tags == tags.tagver # <<0, 0>>
          none == AnyHas("No ID3 tags found")
          v24 == ~none /\ AnyHas("ID3v2.4")
          unusual == ~none /\ ~v24 /\ AnyHas("Unusual ID3 version")
          art == AnyHas("Large artwork")
          added == none /\ ~dry
          converted == (v24 \/ unusual) /\ ~dry /\ has_tags
          stripped == art /\ ~dry /\ (has_tags \/ added)
          modified == added \/ converted \/ stripped
          fixes_applied ==
            (IF none THEN (IF dry THEN <<"Would add basic ID3v2.3 tags">>
                           ELSE <<"Added basic ID3v2.3 tags">>)
             ELSE IF v24 /\ (dry \/ has_tags)
               THEN (IF dry THEN <<"Would convert ID3v2.4 to ID3v2.3">>
                     ELSE <<"Converted ID3v2.4 to ID3v2.3">>)
             ELSE IF unusual /\ (dry \/ has_tags)
               THEN (IF dry THEN <<"Would convert to ID3v2.3">>
                     ELSE <<"Converted to ID3v2.3">>)
             ELSE <<>>)
            \o (IF art /\ (dry \/ has_tags \/ added)
                  THEN (IF dry THEN <<"Would remove large album artwork">>
                        ELSE <<"Removed large album artwork">>)
                  ELSE <<>>)
          f1 == [f EXCEPT
                   !.stats.added_tags = @ + (IF none THEN 1 ELSE 0),
                   !.stats.converted_tags = @ + (IF v24 THEN 1 ELSE 0),
                   !.stats.converted_unusual_tags = @ + (IF unusual THEN 1 ELSE 0),
                   !.stats.removed_artwork = @ + (IF art THEN 1 ELSE 0)]
      IN  IF id3_issues = <<>> THEN [fx |-> f, drive |-> drv]
          ELSE IF ~tags.loads
            THEN [fx |-> [f EXCEPT !.failed_files =
                            Append(@, <<file_path, "Failed to load MP3">>)],
                  drive |-> drv]
          ELSE IF modified /\ tags.locked
            THEN [fx |-> [f1 EXCEPT !.failed_files =
                            Append(@, <<file_path, "Failed to save">>)],
                  drive |-> drv]
          ELSE IF modified
            THEN [fx |-> [f1 EXCEPT
                            !.fixed_files = Append(@, <<file_path, fixes_applied>>),
                            !.stats.files_modified = @ + 1],
                  drive |-> [drv EXCEPT !.files[file_path].tags =
                               SavedTags(tags, stripped)]]
          ELSE IF fixes_applied # <<>>
            THEN [fx |-> [f1 EXCEPT
                            !.fixed_files = Append(@, <<file_path, fixes_applied>>)],
                  drive |-> drv]
          ELSE [fx |-> f1, drive |-> drv]

\* VolvoUSBFixer._process_file
UsbProcessFile(f, drv, file_path, rows) ==
  UsbFixOutcome(f.dry_run, f, drv, file_path, rows)

\* ------------------------------------------------------------ fixers: fix_all
\* the fixer as constructed by main: dry_run = not args.apply
NewFixer(tool, dry) == [NoFixer EXCEPT !.tool = tool, !.dry_run = dry, !.pc = "start"]

\* the scan variables while a fixer runs: no verifier exists
NoVerifier ==
  /\ root_kind = "dir"
  /\ main_pc = "start"
  /\ log_file = FALSE
  /\ tree = EmptyTree
  /\ run = 1
  /\ num_threads = 1
  /\ prev = NoOutcome
  /\ pc = "NoScan"
  /\ step = "none"
  /\ errors = <<>>
  /\ warnings = <<>>
  /\ info = <<>>
  /\ problem_files = <<>>
  /\ file_stats = [e \in SUPPORTED_FORMATS |-> 0]
  /\ audio_files = <<>>
  /\ task = <<>>
  /\ result = <<>>
  /\ snapshot = {}
  /\ waiterq = <<>>
  /\ display = <<>>
  /\ probes = <<>>
  /\ logged = <<>>
  /\ csv = NoCsv
  /\ passed = FALSE
  /\ exit_code = -1

verifierVars ==
  <<root_kind, main_pc, log_file, tree, run, num_threads, pc, step, errors,
    warnings, info, problem_files, file_stats, audio_files, task, result,
    snapshot, waiterq, display, probes, logged, csv, passed, exit_code, prev>>

\* a fixer, the CSV it is given and the drive it works on
InitFixer ==
  /\ NoVerifier
  /\ \E tool \in {"path", "usb"}, dry \in BOOLEAN, posix \in BOOLEAN :
       \E j \in Jobs(IF tool = "path" THEN PathEntries ELSE UsbEntries) :
         /\ fx = NewFixer(tool, dry)
         /\ drive = DriveOf(j, posix)
         /\ issues = Flatten([k \in DOMAIN j |-> j[k].rows])

\* fix_all up to the loop: the mode is logged and the issues are loaded
FixerStart ==
  /\ fx.pc = "start"
  /\ fx' = [fx EXCEPT
              !.pc = "processing",
              !.log = Append(@, IF fx.dry_run
                                  THEN <<"DRY RUN: No files will be modified", <<>>>>
                                  ELSE <<"LIVE MODE", <<>>>>),
              !.todo = IF fx.tool = "path" THEN PathLoadIssues(issues)
                       ELSE UsbLoadIssues(issues)]
  /\ UNCHANGED <<drive, issues, verifierVars>>

\* VolvoPathFixer.fix_all: one iteration of the loop over issues_by_file
PathProcess ==
  /\ fx.pc = "processing" /\ fx.tool = "path"
  /\ fx.todo # <<>>
  /\ LET o == _process_file([fx EXCEPT !.todo = Tail(@)], drive, Head(fx.todo),
                            TypesOf(issues, Head(fx.todo)))
     IN  fx' = o.fx /\ drive' = o.drive
  /\ UNCHANGED <<issues, verifierVars>>

\* VolvoUSBFixer.fix_all: a pool thread runs _process_file for one of the
\* submitted files; the threads touch different files and append to the
\* shared lists under their locks
UsbProcess ==
  /\ fx.pc = "processing" /\ fx.tool = "usb"
  /\ \E k \in DOMAIN fx.todo :
       LET rest == [i \in 1..(Len(fx.todo) - 1) |->
                      IF i < k THEN fx.todo[i] ELSE fx.todo[i + 1]]
           o == UsbProcessFile([fx EXCEPT !.todo = rest], drive, fx.todo[k],
                               RowsOf(issues, fx.todo[k]))
       IN  fx' = o.fx /\ drive' = o.drive
  /\ UNCHANGED <<issues, verifierVars>>

\* print_summary
FixerSummary ==
  /\ fx.pc = "processing"
  /\ fx.todo = <<>>
  /\ fx' = [fx EXCEPT
              !.pc = "done",
              !.log = @ \o (IF fx.dry_run
                              THEN << <<"DRY RUN - No files were modified", <<>>>>,
                                      <<"To apply these fixes, run with --apply flag", <<>>>> >>
                              ELSE << <<"Fixes have been applied!", <<>>>> >>)]
  /\ UNCHANGED <<drive, issues, verifierVars>>

FixerNext ==
  \/ FixerStart
  \/ PathProcess
  \/ UsbProcess
  \/ FixerSummary

SpecFixer == InitFixer /\ [][FixerNext]_vars

\* ------------------------------------------------------------ rename_audiobooks
\* find_audiobook_files: the files below base_dir in sorted order
RenameSources ==
  << <<"a">> \o Mp3Ext, <<"b">> \o Mp3Ext, <<"d", "/", "c">> \o Mp3Ext >>

\* a file below base_dir that no change moves
UntouchedFile == <<"u">> \o Mp3Ext

\* the new paths of the changes: the path of another source, a free path,
\* the path of a file that stays, an existing folder, a path in a folder
\* still to be made, a path below a file
RenameTargets ==
  { <<"a">> \o Mp3Ext, <<"t">> \o Mp3Ext, UntouchedFile, <<"d">>,
    <<"n", "/", "t">> \o Mp3Ext, <<"b">> \o Mp3Ext \o <<"/", "t">> \o Mp3Ext }

\* the parents of the new paths in sorted order
SortedParents == << <<>>, <<"b">> \o Mp3Ext, <<"n">> >>

\* the lists of changes preview_changes can return: the files in sorted
\* order, each with a new path that differs from its own
ChangeLists ==
  { c \in UNION {[1..k -> [original : Range(RenameSources), new : RenameTargets]] :
                   k \in 1..MaxJobs} :
      /\ \A k \in DOMAIN c : c[k].new # c[k].original
      /\ \A a, b \in DOMAIN c :
           a < b => \E i, j \in DOMAIN RenameSources :
                      /\ i < j
                      /\ RenameSources[i] = c[a].original
                      /\ RenameSources[j] = c[b].original }

\* the files and folders below base_dir before apply_changes
RenameDrive(posix) ==
  [files |-> [q \in Range(RenameSources) \cup {UntouchedFile} |->
                [id |-> q, tags |-> CleanTags]],
   dirs |-> {<<"d">>},
   posix |-> posix]

\* dir_path.mkdir(parents=True, exist_ok=True) raises for dir_path: it or
\* one of its parents is a file
MkdirRaises(drv, d) ==
  d # <<>> /\ (d \in DOMAIN drv.files \/ Ancestors(d) \cap DOMAIN drv.files # {})

\* the loop over sorted(dirs_to_create): the folders made before the first
\* mkdir that raises
Mkdirs(drv, changes) ==
  LET wanted == {PathParent(changes[k].new) : k \in DOMAIN changes}
      bad == {i \in DOMAIN SortedParents :
                SortedParents[i] \in wanted /\ MkdirRaises(drv, SortedParents[i])}
      stop == IF bad = {} THEN Len(SortedParents) + 1
              ELSE CHOOSE i \in bad : \A j \in bad : i <= j
      made == {SortedParents[i] : i \in {j \in 1..(stop - 1) : SortedParents[j] \in wanted}}
  IN  [drive |-> [drv EXCEPT !.dirs = @ \cup (made \ {<<>>})
                                       \cup UNION {Ancestors(d) : d \in made}],
       raised |-> bad # {}]

\* change['new'].exists()
PathExists(drv, p) == p \in DOMAIN drv.files \/ p \in drv.dirs

\* shutil.move(src, dst): into dst when dst is a folder, else a rename
\* that replaces a file at dst
Move(drv, src, dst) ==
  LET real_dst == IF dst \in drv.dirs THEN PathJoin(dst, PathName(src)) ELSE dst
  IN  IF src \notin DOMAIN drv.files \/ (dst \in drv.dirs /\ PathExists(drv, real_dst))
        THEN [drive |-> drv, raised |-> TRUE]
        ELSE [drive |-> [drv EXCEPT !.files =
                           [q \in (DOMAIN drv.files \ {src}) \cup {real_dst} |->
                              IF q = real_dst THEN drv.files[src] ELSE drv.files[q]]],
              raised |-> FALSE]

\* the body of the loop of apply_changes without the test of the target
apply_change_unchecked(f, drv, change) ==
  LET m == Move(drv, change.original, change.new)
  IN  IF m.raised
        THEN [fx |-> [f EXCEPT !.failed = @ + 1,
                               !.log = Append(@, <<"[ERROR]", change.original>>)],
              drive |-> drv]
        ELSE [fx |-> [f EXCEPT !.success = @ + 1,
                               !.log = Append(@, <<"[SUCCESS]", change.original>>)],
              drive |-> m.drive]

\* the body of the loop of apply_changes for one change
apply_change(f, drv, change) ==
  LET m == Move(drv, change.original, change.new)
  IN  IF PathExists(drv, change.new)
        THEN [fx |-> [f EXCEPT !.failed = @ + 1,
                               !.log = Append(@, <<"[WARNING] Target exists, skipping",
                                                   change.original>>)],
              drive |-> drv]
        ELSE IF m.raised
          THEN [fx |-> [f EXCEPT !.failed = @ + 1,
                                 !.log = Append(@, <<"[ERROR]", change.original>>)],
                drive |-> drv]
          ELSE [fx |-> [f EXCEPT !.success = @ + 1,
                                 !.log = Append(@, <<"[SUCCESS]", change.original>>)],
                drive |-> m.drive]

\* cleanup_empty_dirs: bottom-up, every folder without a file below it is removed
cleanup_empty_dirs(drv) ==
  [drv EXCEPT !.dirs = {d \in @ : \E q \in DOMAIN drv.files : d \in Ancestors(q)}]

\* apply_changes is called with the changes of preview_changes
InitRename ==
  /\ NoVerifier
  /\ \E c \in ChangeLists, posix \in BOOLEAN :
       /\ issues = c
       /\ drive = RenameDrive(posix)
       /\ fx = [tool |-> "rename", pc |-> "start", todo |-> c, success |-> 0,
                failed |-> 0, log |-> <<>>]

\* apply_changes up to the loop over the changes: the folders are made; an
\* exception of mkdir leaves apply_changes
RenameMkdirs ==
  /\ fx.pc = "start"
  /\ LET m == Mkdirs(drive, issues)
     IN  /\ drive' = m.drive
         /\ fx' = [fx EXCEPT !.pc = IF m.raised THEN "raised" ELSE "renaming"]
  /\ UNCHANGED <<issues, verifierVars>>

\* one iteration of the loop over the changes
RenameOne ==
  /\ fx.pc = "renaming"
  /\ fx.todo # <<>>
  /\ LET o == apply_change([fx EXCEPT !.todo = Tail(@)], drive, Head(fx.todo))
     IN  fx' = o.fx /\ drive' = o.drive
  /\ UNCHANGED <<issues, verifierVars>>

\* the end of apply_changes: cleanup_empty_dirs and the COMPLETE line
RenameDone ==
  /\ fx.pc = "renaming"
  /\ fx.todo = <<>>
  /\ drive' = cleanup_empty_dirs(drive)
  /\ fx' = [fx EXCEPT !.pc = "done",
                       !.log = Append(@, <<"COMPLETE", <<fx.success, fx.failed>>>>)]
  /\ UNCHANGED <<issues, verifierVars>>

RenameNext ==
  \/ RenameMkdirs
  \/ RenameOne
  \/ RenameDone

SpecRename == InitRename /\ [][RenameNext]_vars

\* the steps of the thread that runs verify_all
MainThread ==
  \/ StartScan
  \/ VerifyStructure
  \/ CollectAudioFiles
  \/ Submit
  \/ AsCompleted
  \/ Take
  \/ ReportIssues
  \/ PrintReport

\* the steps of the threads of the ThreadPoolExecutor
Workers ==
  \/ WorkerStart
  \/ WorkerFinish

\* one scan, with the main thread and the pool threads scheduled fairly;
\* _verify_audio_file returns or raises, so WorkerFinish stays enabled for
\* a running task
ScanNext == MainThread \/ Workers

FairSpec ==
  Init /\ [][ScanNext]_vars /\ WF_vars(MainThread) /\ WF_vars(Workers)

\* verify_all is called again on the verifier of the finished scan: the
\* fields set by __init__ keep their values, the locals of the methods
\* start anew
Reinvoke ==
  /\ pc = "Done"
  /\ run < MaxRuns
  /\ run' = run + 1
  /\ prev' = Outcome
  /\ pc' = "Idle"
  /\ step' = "none"
  /\ audio_files' = <<>>
  /\ task' = <<>>
  /\ result' = <<>>
  /\ snapshot' = {}
  /\ waiterq' = <<>>
  /\ display' = <<>>
  /\ probes' = <<>>
  /\ logged' = <<>>
  /\ passed' = FALSE
  /\ exit_code' = -1
  /\ UNCHANGED <<fx, drive, issues, root_kind, main_pc, log_file, tree,
                 num_threads, errors, warnings, info, problem_files, file_stats,
                 csv>>

ReuseNext == ScanNext \/ Reinvoke

\* scans of one tree by one verifier object
SpecReuse == Init /\ [][ReuseNext]_vars

\* ------------------------------------------------------------ claims
Done == pc = "Done"

SupportedFiles == {i \in 1..NumFiles(tree) : IsSupported(tree.files[i])}

ErrorSeverities == {"Error", "ERROR"}

\* the rows of problem_files appended by the audio phase
AudioRows(rows) == SubSeq(rows, Len(StructureRows(tree)) + 1, Len(rows))

\* number of rows of the given file, issue type and severity
RowCount(rows, id, types, sevs) ==
  Cardinality({k \in DOMAIN rows :
                 /\ rows[k].file_path = id
                 /\ rows[k].issue_type \in types
                 /\ rows[k].severity \in sevs})

\* C1: after a scan, passed is true if and only if no Error-severity
\* Finding was produced anywhere in the scan, the per-file ones recorded
\* for export included.
C1_PassedIffNoError ==
  Done =>
    (passed <=>
       /\ errors = <<>>
       /\ \A k \in DOMAIN problem_files :
            problem_files[k].severity \notin ErrorSeverities)

\* C2: an audio file whose bitrate is exactly 144 kbps gets exactly one
\* Error Finding of category Bitrate, and passed is false.
C2_ForbiddenBitrate ==
  Done =>
    \A i \in SupportedFiles :
      (/\ tree.files[i].fault = "none"
       /\ tree.files[i].bitrate # 0
       /\ BitrateKbps(tree.files[i]) = FORBIDDEN_BITRATE)
      => /\ RowCount(problem_files, i, {"Bitrate"}, {"Error"}) = 1
         /\ passed = FALSE

\* s lists its subjects in discovery order: the walk index never decreases
Grouped(subjects) ==
  \A a, b \in DOMAIN subjects : a < b => subjects[a] <= subjects[b]

\* C3: the per-file Findings of the audio phase, in the displayed issue
\* list and in the rows collected for export, are grouped in the order in
\* which the walk discovered the files, whatever the completion order.
C3_DiscoveryOrder ==
  pc \in {"Reporting", "Done"} =>
    /\ Grouped([k \in DOMAIN display |-> display[k].subj])
    /\ Grouped([k \in DOMAIN AudioRows(problem_files) |->
                  AudioRows(problem_files)[k].file_path])

\* C4: a second independent scan of the unmodified tree yields the
\* identical Finding sequence and the identical exported table.
C4_Idempotent ==
  (Done /\ run > 1) =>
    /\ errors = prev.errors
    /\ warnings = prev.warnings
    /\ info = prev.info
    /\ display = prev.display
    /\ problem_files = prev.problem_files
    /\ csv = prev.csv

\* the Findings of a scan as a set
FindingSet(o) ==
  [errors |-> Range(o.errors), warnings |-> Range(o.warnings),
   display |-> Range(o.display), rows |-> Range(o.problem_files)]

\* C5: a scan with a pool of size 1 and a scan of the same tree with a
\* pool of size K > 1 produce the same set of Findings, in every
\* interleaving of the workers.
C5_PoolSizeSameSet ==
  (Done /\ run > 1 /\ ((prev.num_threads = 1) # (num_threads = 1))) =>
    FindingSet(Outcome) = FindingSet(prev)

C5_Witness ==
  /\ Done /\ run > 1
  /\ prev.num_threads = 1 /\ num_threads > 1
  /\ Len(display) >= 2
  /\ display # prev.display
  /\ FindingSet(Outcome) = FindingSet(prev)

\* the issue types under which a failed read of a file is recorded: by the
\* task itself ("Read Error") or by the aggregation loop ("Processing Error")
ReadErrorTypes == {"Read Error", "Processing Error"}

\* C6: when the audit of a file fails, the scan goes on: it never stops
\* before Done, every discovered audio file has been audited and taken when
\* the report is reached, and the failure is recorded as exactly one read
\* error, of severity Error, for that file and for no other file.
C6_FailureIsolated ==
  /\ ~Done => ENABLED Next
  /\ pc \in {"Reporting", "Done"} =>
       /\ Len(audio_files) = Cardinality(SupportedFiles)
       /\ \A k \in Tasks : task[k] = "taken"
       /\ \A i \in SupportedFiles :
            RowCount(problem_files, i, ReadErrorTypes, {"Error"}) =
              (IF tree.files[i].fault = "none" THEN 0 ELSE 1)
       /\ \A k \in DOMAIN problem_files :
            problem_files[k].issue_type \in ReadErrorTypes
              => problem_files[k].file_path \in SupportedFiles

C6_Witness ==
  /\ Done
  /\ \E i, j \in SupportedFiles :
       /\ i < j
       /\ tree.files[i].fault = "task"
       /\ tree.files[j].fault = "none"
       /\ RowCount(problem_files, i, ReadErrorTypes, {"Error"}) = 1
       /\ RowCount(problem_files, j, {"Bitrate"}, {"Error"}) = 1

\* C7: for a file whose metadata cannot be read, the probe is attempted
\* exactly once and exactly one Read Error Finding is recorded, with each
\* of the three handlers.
C7_OneProbeOneReadError ==
  /\ \A k \in Tasks : probes[k] <= 1
  /\ pc \in {"Reporting", "Done"} =>
       \A k \in Tasks :
         tree.files[audio_files[k]].fault = "probe" =>
           /\ probes[k] = 1
           /\ RowCount(problem_files, audio_files[k], {"Read Error"}, {"Error"}) = 1
           /\ Cardinality({d \in DOMAIN display :
                             display[d].subj = audio_files[k]}) = 1

C7_Witness ==
  /\ Done
  /\ \E k \in Tasks :
       /\ tree.files[audio_files[k]].fault = "probe"
       /\ Lower(tree.files[audio_files[k]].ext) = ".wma"
       /\ probes[k] = 1
       /\ RowCount(problem_files, audio_files[k], {"Read Error"}, {"Error"}) = 1

\* the export category of an entry of self.errors ("" for a marker line
\* and for the platform's filesystem probe, which is outside the engine)
ErrorCategory(text) ==
  CASE text = "Unsupported format" -> "Unsupported Format"
    [] text = "Path too long" -> "Path Length"
    [] text \in {"Total files exceeds maximum", "Root folders exceeds maximum",
                 "Folder has too many files",
                 "Max nesting depth exceeds maximum"} -> "Structure Count"
    [] OTHER -> ""

\* C8: after a scan the export holds exactly one row for every Finding
\* (structure-count, unsupported-format, path and per-file audio Findings
\* alike), and it is written only when there is a Finding.
C8_ExportComplete ==
  Done =>
    /\ \A k \in DOMAIN errors :
         ErrorCategory(errors[k].text) # "" =>
           RowCount(csv.rows, errors[k].subj,
                    {ErrorCategory(errors[k].text)}, ErrorSeverities) = 1
    /\ \A d \in DOMAIN display :
         \E r \in DOMAIN csv.rows : csv.rows[r].file_path = display[d].subj
    /\ \A k \in DOMAIN problem_files :
         Cardinality({r \in DOMAIN csv.rows : csv.rows[r] = problem_files[k]}) =
         Cardinality({j \in DOMAIN problem_files : problem_files[j] = problem_files[k]})
    /\ csv.written =>
         (errors # <<>> \/ warnings # <<>> \/ problem_files # <<>>)

\* the "... and N more" lines of the report
Markers == {m \in Range(errors) \cup Range(logged) :
              m.text \in {"... and N more long paths", "... and N more folders",
                          "... and N more issues"}}

\* C9: whenever more Findings of a kind exist than are displayed (over-long
\* paths, over-full folders, per-file audio issues), the report carries an
\* "... and N more" line with N the number not displayed, and every
\* Finding of that kind is in the export.
C9_NoSilentDrop ==
  Done =>
    /\ Len(long_paths(tree)) > StructureCap =>
         /\ Msg("... and N more long paths", 0,
                Len(long_paths(tree)) - StructureCap) \in Markers
         /\ \A i \in Range(long_paths(tree)) :
              RowCount(csv.rows, i, {"Path Length"}, ErrorSeverities) = 1
    /\ Len(overcrowded_folders(tree)) > StructureCap =>
         /\ Msg("... and N more folders", 0,
                Len(overcrowded_folders(tree)) - StructureCap) \in Markers
         /\ \A d \in Range(overcrowded_folders(tree)) :
              RowCount(csv.rows, d, {"Structure Count"}, ErrorSeverities) = 1
    /\ Len(display) > IssueCap =>
         /\ Msg("... and N more issues", 0, Len(display) - IssueCap) \in Markers
         /\ \A d \in DOMAIN display :
              \E r \in DOMAIN csv.rows : csv.rows[r].file_path = display[d].subj

PhaseOrder ==
  { <<"Idle", "ScanningStructure">>, <<"ScanningStructure", "ScanningAudio">>,
    <<"ScanningAudio", "Reporting">>, <<"Reporting", "Done">> }

\* C10: a scan passes through Idle, ScanningStructure, ScanningAudio,
\* Reporting, Done in exactly that order, skipping none (after Done a new
\* scan starts at Idle), and an audit task is started only once the
\* structural walk has completed.
C10_PhaseOrder ==
  [][ /\ pc' # pc => (<<pc, pc'>> \in PhaseOrder \/ (pc = "Done" /\ pc' = "Idle"))
      /\ (\E k \in DOMAIN task' : task'[k] # "new") =>
           /\ pc' \in {"ScanningAudio", "Reporting", "Done"}
           /\ info' # <<>> \/ errors' # <<>>
           /\ Len(problem_files') >= Len(StructureRows(tree)) ]_vars

C10_Witness ==
  /\ Done
  /\ \E k \in Tasks : task[k] = "taken"
  /\ csv.written

\* the entries of a message list with the given template text
WithText(seq, text) == {k \in DOMAIN seq : seq[k].text = text}

\* the rows of the given issue type
OfType(rows, type) == {k \in DOMAIN rows : rows[k].issue_type = type}

AllSeverities == {"Error", "ERROR", "Warning", "WARNING"}

C14_FilenameBoundary ==
  Done =>
    \A i \in 1..NumFiles(tree) :
      /\ tree.files[i].nameLen = MAX_FILENAME_LENGTH =>
           RowCount(problem_files, i, {"Filename Length"}, AllSeverities) = 0
      /\ tree.files[i].nameLen = MAX_FILENAME_LENGTH + 1 =>
           /\ RowCount(problem_files, i, {"Filename Length"}, AllSeverities) = 1
           /\ Row(i, "Filename Length", "ERROR", "Filename length exceeds maximum",
                  MAX_FILENAME_LENGTH + 1) \in Range(problem_files)

C14_Witness ==
  /\ Done
  /\ \E i, j \in 1..NumFiles(tree) :
       /\ tree.files[i].nameLen = MAX_FILENAME_LENGTH
       /\ tree.files[j].nameLen = MAX_FILENAME_LENGTH + 1
       /\ RowCount(problem_files, i, {"Filename Length"}, AllSeverities) = 0
       /\ RowCount(problem_files, j, {"Filename Length"}, {"ERROR"}) = 1

\* C15: when exactly one folder holds limit+1 supported audio files and no
\* other folder holds more than the limit, the scan produces exactly one
\* files-per-folder Error, naming that folder with the count limit+1.
C15_OneCrowdedFolder ==
  Done =>
    \A d \in 1..NumDirs(tree) :
      (/\ FolderAudioCount(tree, d) = MAX_FILES_PER_FOLDER + 1
       /\ \A e \in 1..NumDirs(tree) \ {d} :
            FolderAudioCount(tree, e) <= MAX_FILES_PER_FOLDER)
      => /\ Cardinality(WithText(errors, "Folder has too many files")) = 1
         /\ \A k \in WithText(errors, "Folder has too many files") :
              errors[k] = Msg("Folder has too many files", d,
                              MAX_FILES_PER_FOLDER + 1)

C15_Witness ==
  /\ Done
  /\ NumDirs(tree) = 2
  /\ FolderAudioCount(tree, 1) = MAX_FILES_PER_FOLDER
  /\ FolderAudioCount(tree, 2) = MAX_FILES_PER_FOLDER + 1
  /\ Msg("Folder has too many files", 2, MAX_FILES_PER_FOLDER + 1) \in Range(errors)
  /\ Cardinality(WithText(errors, "Folder has too many files")) = 1

\* the files whose probe yields a tag version: the MP3 files that can be read
Tagged(v) ==
  {i \in SupportedFiles :
     /\ Lower(tree.files[i].ext) = ".mp3"
     /\ tree.files[i].fault = "none"
     /\ tree.files[i].tagver = v}

\* C16: a file whose tag version is 2.4 gets exactly one Finding about the
\* tag version, a Warning, and that Finding does not make the scan fail:
\* passed is true when there is no Error-severity Finding.
C16_TagVersion24 ==
  Done =>
    /\ \A i \in Tagged(<<2, 4>>) :
         /\ RowCount(problem_files, i, {"ID3 Tags"}, {"Warning"}) = 1
         /\ RowCount(problem_files, i, {"ID3 Tags"}, AllSeverities) = 1
         /\ Cardinality({d \in DOMAIN display :
                           /\ display[d].subj = i
                           /\ display[d].text =
                                "ID3v2.4 tags (ID3v2.3 recommended for compatibility)"}) = 1
    /\ (/\ Tagged(<<2, 4>>) # {}
        /\ errors = <<>>
        /\ \A k \in DOMAIN problem_files :
             problem_files[k].severity \notin ErrorSeverities)
       => passed

C16_Witness ==
  /\ Done
  /\ passed
  /\ \E i \in Tagged(<<2, 4>>) :
       RowCount(problem_files, i, {"ID3 Tags"}, {"Warning"}) = 1

\* C17: the root-folder count the structure scan reports and compares with
\* the maximum is the number of folders directly in the scan root, whether
\* or not the scan root is a filesystem root; the root-folder Error appears
\* exactly when that number exceeds the maximum.
C17_RootFolderCount ==
  Done =>
    LET n == SubdirCount(tree, 1) IN
    /\ n <= MAX_ROOT_FOLDERS =>
         /\ Msg("Root folders", 0, n) \in Range(info)
         /\ WithText(errors, "Root folders exceeds maximum") = {}
    /\ n > MAX_ROOT_FOLDERS =>
         Msg("Root folders exceeds maximum", 0, n) \in Range(errors)

\* the readable supported files of the given extensions with a known bitrate
Rated(exts) ==
  {i \in SupportedFiles :
     /\ Lower(tree.files[i].ext) \in exts
     /\ tree.files[i].fault = "none"
     /\ tree.files[i].bitrate # 0}

\* the full bitrate rule holds of file i
FullBitrateRule(i) ==
  LET b == BitrateKbps(tree.files[i])
      errs == RowCount(problem_files, i, {"Bitrate"}, {"Error"})
      all == RowCount(problem_files, i, {"Bitrate"}, AllSeverities)
      warns == RowCount(problem_files, i, {"Bitrate"}, {"Warning"})
  IN  /\ b = FORBIDDEN_BITRATE => (errs = 1 /\ all = 1)
      /\ (b < MIN_BITRATE \/ b > MAX_BITRATE) => (warns = 1 /\ all = 1)
      /\ (b >= MIN_BITRATE /\ b <= MAX_BITRATE /\ b # FORBIDDEN_BITRATE) => all = 0

Phases == {"Idle", "ScanningStructure", "ScanningAudio", "Reporting", "Done"}

\* the RESULT line that ends print_report
ReportPrinted ==
  \E k \in DOMAIN logged :
    logged[k].text \in {"RESULT: Drive appears compatible", "RESULT: Issues found"}

\* C11: with the main thread and the workers scheduled fairly and every
\* probe returning or raising, every scan eventually reaches Done with the
\* report printed, with or without Error Findings; the scan is never in a
\* state other than the five phases, so a non-compliant result ends in Done
\* as well.
C11_EventuallyDone ==
  /\ [](pc \in Phases)
  /\ [](Done => ReportPrinted)
  /\ <>Done

C11_Witness ==
  /\ Done
  /\ ReportPrinted
  /\ errors # <<>>
  /\ ~passed
  /\ \E k \in Tasks : result[k].raised

\* C12: when the given path does not exist or is not a directory, main
\* exits with status 1 before any scan state is entered: no verifier is
\* constructed, no phase of the scan runs, and neither a log file nor an
\* export file is created.
C12_PreconditionFailure ==
  root_kind # "dir" =>
    /\ pc = "NoScan"
    /\ log_file = FALSE
    /\ csv = NoCsv
    /\ logged = <<>>
    /\ errors = <<>> /\ warnings = <<>> /\ info = <<>>
    /\ problem_files = <<>> /\ task = <<>>
    /\ main_pc \in {"start", "exited"}
    /\ main_pc = "exited" <=> exit_code = 1

C12_Witness ==
  /\ root_kind = "file"
  /\ main_pc = "exited"
  /\ exit_code = 1
  /\ pc = "NoScan"
  /\ log_file = FALSE

\* C18: in dry-run mode neither fixer changes the drive: no step of
\* fix_all renames a file, creates a directory or saves a tag, whatever
\* issues the CSV holds.
C18_DryRunFrame == [][fx.dry_run => drive' = drive]_vars

C18_Witness ==
  /\ fx.pc = "done"
  /\ fx.dry_run
  /\ Len(fx.fixed_files) = 2
  /\ \A k \in DOMAIN fx.fixed_files :
       /\ fx.fixed_files[k][1] \in DOMAIN drive.files
       /\ fx.tool = "path" => fx.fixed_files[k][2] \notin DOMAIN drive.files
       /\ drive.files[fx.fixed_files[k][1]].id = fx.fixed_files[k][1]

\* the pairs (file_path, new_path) the path fixer recorded for the files
\* whose name it passed to _shorten_filename and changed in no other way
Shortened ==
  IF fx.tool # "path" THEN {}
  ELSE {x \in {<<y[1], y[2]>> : y \in Range(fx.fixed_files) \cup Range(fx.paths_too_long)} :
          /\ "Filename Length" \in TypesOf(issues, x[1])
          /\ "Invalid Characters" \notin TypesOf(issues, x[1])}

\* C19: the name _shorten_filename returns fits within 64 characters,
\* extension included, keeps the extension of the name it was given, and
\* is the given name when that already fits.
C19_ShortenFits ==
  \A x \in Shortened :
    LET old == PathName(x[1])
        new == PathName(x[2])
    IN  /\ new = _shorten_filename(old)
        /\ Len(new) <= FIXER_MAX_FILENAME_LENGTH
        /\ PathSuffix(new) = PathSuffix(old)
        /\ Len(old) <= FIXER_MAX_FILENAME_LENGTH => new = old

\* the readable supported files of the given extensions (their sample rate
\* is known)
Sampled(exts) ==
  {i \in SupportedFiles :
     /\ Lower(tree.files[i].ext) \in exts
     /\ tree.files[i].fault = "none"}

\* number of Sample Rate Warning rows of file i
SampleWarnings(i) == RowCount(problem_files, i, {"Sample Rate"}, {"Warning"})

\* C21 as stated: every audited file with a known sample rate gets a
\* Sample Rate Warning exactly when the rate is not in {32000, 44100,
\* 48000}, whichever handler audits it.
C21_SampleRateEveryContainer ==
  Done =>
    \A i \in Sampled(SUPPORTED_FORMATS) :
      (SampleWarnings(i) >= 1) <=> (tree.files[i].sample_rate \notin VALID_SAMPLE_RATES)

\* C21 as amended: an MP3 file gets exactly one Sample Rate Warning when
\* its rate is not in the valid set and none otherwise; a file of the MP4
\* family gets exactly one when its rate is below 8000 or above 96000 and
\* none otherwise; a WMA file gets none.
C21_SampleRatePerContainer ==
  Done =>
    /\ \A i \in Sampled({".mp3"}) :
         SampleWarnings(i) =
           (IF tree.files[i].sample_rate \notin VALID_SAMPLE_RATES THEN 1 ELSE 0)
    /\ \A i \in Sampled({".m4a", ".m4b", ".aac"}) :
         SampleWarnings(i) =
           (IF tree.files[i].sample_rate < 8000 \/ tree.files[i].sample_rate > 96000
              THEN 1 ELSE 0)
    /\ \A i \in Sampled({".wma"}) : SampleWarnings(i) = 0
    /\ \A i \in Sampled(SUPPORTED_FORMATS) :
         RowCount(problem_files, i, {"Sample Rate"}, AllSeverities) = SampleWarnings(i)

C21_Witness ==
  /\ Done
  /\ \E k \in Tasks :
       /\ audio_files[k] \in Sampled({".m4a"})
       /\ tree.files[audio_files[k]].sample_rate = 22050
       /\ probes[k] = 1
       /\ SampleWarnings(audio_files[k]) = 0

\* C22: a file with the DRM-tagged MP4 extension .m4p in the scanned tree
\* gets an Error Finding of category DRM.
C22_DrmFlagged ==
  Done =>
    \A i \in 1..NumFiles(tree) :
      Lower(tree.files[i].ext) = ".m4p" =>
        RowCount(problem_files, i, {"DRM"}, {"Error"}) >= 1

\* the "Unsupported format" entries of self.errors for file i
FormatFindings(i) ==
  {k \in DOMAIN errors : errors[k].text = "Unsupported format" /\ errors[k].subj = i}

\* file i has a task in the pool
Audited(i) == \E k \in Tasks : audio_files[k] = i

\* C23: by its extension, compared without regard to case, a file of the
\* unsupported set gets exactly one Unsupported Format Error and is neither
\* probed nor counted; a file of the supported set is audited and counted;
\* any other file gets no format Finding and is not probed.
C23_Classification ==
  pc \in {"Reporting", "Done"} =>
    /\ \A i \in 1..NumFiles(tree) :
         LET ext == Lower(tree.files[i].ext) IN
         /\ ext \in UNSUPPORTED_FORMATS =>
              Cardinality(FormatFindings(i)) = 1 /\ ~Audited(i)
         /\ ext \in SUPPORTED_FORMATS =>
              /\ FormatFindings(i) = {}
              /\ Cardinality({k \in Tasks : audio_files[k] = i}) = 1
              /\ \A k \in Tasks : audio_files[k] = i => probes[k] = 1
         /\ ext \notin UNSUPPORTED_FORMATS \cup SUPPORTED_FORMATS =>
              FormatFindings(i) = {} /\ ~Audited(i)
    /\ \A e \in SUPPORTED_FORMATS :
         file_stats[e] =
           Cardinality({i \in 1..NumFiles(tree) : Lower(tree.files[i].ext) = e})
           + (IF e = ".mp3" THEN SumSeq(tree.nClean) ELSE 0)

C23_Witness ==
  /\ Done
  /\ NumFiles(tree) = 1
  /\ tree.files[1].ext = ".FLAC"
  /\ Cardinality(FormatFindings(1)) = 1
  /\ audio_files = <<>>
  /\ file_stats = [e \in SUPPORTED_FORMATS |-> 0]

\* C24: during the audio phase the number of audits running at the same
\* time never exceeds num_threads, and num_threads is at least 1 (the
\* constructor's argument, or by default twice the processor count, 8
\* when the count is unknown).
C24_BoundedPool ==
  /\ Cardinality(Running) <= num_threads
  /\ num_threads >= 1
  /\ run = 1 =>
       num_threads \in 1..MaxThreads \cup {2 * c : c \in CpuCounts \ {0}} \cup {8}

C24_Witness ==
  /\ pc = "ScanningAudio"
  /\ Cardinality(Running) = num_threads
  /\ \E k \in Tasks : task[k] = "queued"

\* the display entries and the audio-phase rows of file i
DisplayOf(i) == {d \in DOMAIN display : display[d].subj = i}
AudioRowsOf(i) ==
  {k \in DOMAIN AudioRows(problem_files) : AudioRows(problem_files)[k].file_path = i}

\* C25: when the Reporting phase begins every supported audio file has
\* been submitted exactly once and its result taken exactly once: the
\* aggregated Findings of each file are exactly the Findings its audit
\* returned, none twice and none lost, in every completion order.
C25_EachResultOnce ==
  pc \in {"Reporting", "Done"} =>
    /\ \A i \in SupportedFiles : Cardinality({k \in Tasks : audio_files[k] = i}) = 1
    /\ \A k \in Tasks : task[k] = "taken" /\ audio_files[k] \in SupportedFiles
    /\ snapshot = {} /\ waiterq = <<>>
    /\ \A i \in SupportedFiles :
         LET r == _verify_audio_file(tree.files[i], i) IN
         /\ Cardinality(DisplayOf(i)) = (IF r.raised THEN 1 ELSE Len(r.display))
         /\ Cardinality(AudioRowsOf(i)) = (IF r.raised THEN 1 ELSE Len(r.csv))
         /\ ~r.raised =>
              /\ Range(r.display) = {display[d] : d \in DisplayOf(i)}
              /\ Range(r.csv) =
                   {AudioRows(problem_files)[k] : k \in AudioRowsOf(i)}

C25_Witness ==
  /\ pc = "Reporting"
  /\ Len(audio_files) = 2
  /\ display # <<>>
  /\ display[1].subj = audio_files[2]
  /\ Cardinality(DisplayOf(audio_files[1])) = 1
  /\ Cardinality(DisplayOf(audio_files[2])) = 1

\* a step of a pool thread: a task starts running or finishes
WorkerStep ==
  \E k \in DOMAIN task :
    /\ k \in DOMAIN task'
    /\ task'[k] # task[k]
    /\ task'[k] \in {"running", "finished"}

\* the collections shared by the scan
Shared == <<errors, warnings, info, problem_files, display, file_stats>>

\* C26: while audits run in the pool, a step of a worker writes none of
\* the shared Finding collections (it stores its Findings in its own
\* future), and a step that appends during the audio phase is a step of
\* the aggregating thread for exactly one future.
C26_SerializedAppends ==
  [][ /\ WorkerStep => Shared' = Shared
      /\ (pc = "ScanningAudio" /\ step = "drain" /\ Shared' # Shared) =>
           /\ ~WorkerStep
           /\ result' = result
           /\ Cardinality({k \in DOMAIN task : task'[k] # task[k]}) = 1
           /\ \A k \in DOMAIN task : task'[k] # task[k] =>
                task[k] = "finished" /\ task'[k] = "taken" ]_vars

C26_Witness ==
  /\ pc = "ScanningAudio"
  /\ \E j, k \in Tasks : task[j] = "taken" /\ task[k] = "running"
  /\ AudioRows(problem_files) # <<>>

\* C27: when verify_all is invoked a second time on the same verifier over
\* the unmodified tree, the Findings, the per-extension counts and passed
\* of the second invocation equal those of the first: nothing of the first
\* invocation is carried over.
C27_ScopedAccumulators ==
  (Done /\ run > 1) =>
    /\ errors = prev.errors
    /\ warnings = prev.warnings
    /\ info = prev.info
    /\ problem_files = prev.problem_files
    /\ file_stats = prev.file_stats
    /\ passed = prev.passed

\* the files on the drive, by the path under which each was found at the start
FilesPresent(drv) == {drv.files[q].id : q \in DOMAIN drv.files}

\* C29: in live mode no step of the path fixer destroys a file: a rename
\* never replaces a file that exists under the new path, and the number of
\* files on the drive stays the same.
C29_NoFileDestroyed ==
  [][ (fx.tool = "path" /\ ~fx.dry_run) =>
        /\ FilesPresent(drive') = FilesPresent(drive)
        /\ Cardinality(DOMAIN drive'.files) = Cardinality(DOMAIN drive.files) ]_vars

\* the pairs (file_path, new_path) the path fixer recorded for the files
\* whose path it passed to _fix_invalid_chars and changed in no other way
CharFixed ==
  IF fx.tool # "path" THEN {}
  ELSE {x \in {<<y[1], y[2]>> : y \in Range(fx.fixed_files) \cup Range(fx.paths_too_long)} :
          /\ "Invalid Characters" \in TypesOf(issues, x[1])
          /\ "Filename Length" \notin TypesOf(issues, x[1])}

\* the number of components of a relative path
Components(p) == 1 + Cardinality({i \in DOMAIN p : p[i] = "/"})

\* C30: the path _fix_invalid_chars returns holds no character of
\* UNSAFE_CHARS and has as many components as the path it was given.
C30_CharsFixedInPlace ==
  \A x \in CharFixed :
    /\ x[2] = _fix_invalid_chars(x[1])
    /\ \A i \in DOMAIN x[2] : x[2][i] \notin UNSAFE_CHARS
    /\ Components(x[2]) = Components(x[1])

\* C28: apply_changes never overwrites an existing file: no step removes
\* a file from the drive or changes what is found under a path that stays;
\* a change whose target exists when it is processed is skipped and counted
\* as failed with its source left in place; and when apply_changes ends the
\* renamed count plus the failed count is the number of changes.
C28_NeverOverwrites ==
  [][ /\ FilesPresent(drive') = FilesPresent(drive)
      /\ \A q \in DOMAIN drive.files \cap DOMAIN drive'.files :
           drive'.files[q] = drive.files[q]
      /\ (fx.pc = "renaming" /\ fx.todo # <<>> /\ PathExists(drive, Head(fx.todo).new)) =>
           /\ drive' = drive
           /\ fx'.failed = fx.failed + 1
           /\ fx'.success = fx.success
      /\ fx'.pc = "done" => fx'.success + fx'.failed = Len(issues) ]_vars

C28_Witness ==
  /\ fx.pc = "done"
  /\ Len(issues) = 2
  /\ issues[1].new = issues[2].new
  /\ fx.success = 1 /\ fx.failed = 1
  /\ issues[2].original \in DOMAIN drive.files
  /\ issues[1].new \in DOMAIN drive.files
  /\ drive.files[issues[1].new].id = issues[1].original

====
